---- MODULE Spec2Model ----
(***************************************************************************)
(* A model of the MCP proxy gateway (package main: http.go, client.go,     *)
(* config.go).                                                             *)
(*                                                                         *)
(* Seven state machines share this module:                                 *)
(*   SpecMW       one mounted route: the middleware chain built by         *)
(*                startHTTPServer and one request after the other;         *)
(*   Spec         the lifecycle of startHTTPServer: the loop over the      *)
(*                backends, the tasks, the waiter and listener             *)
(*                goroutines, the signal, the shutdown, the return;        *)
(*   SpecInit     one backend's addToMCPServer and its ping task;          *)
(*   SpecCfg      load and parseMCPClientConfig on one config file;        *)
(*   SpecAdapter  one server of the multi-adapter gateway;                 *)
(*   SpecIso      two backends, their routes and the requests on them;     *)
(*   SpecHandle   one tool call on the multi-adapter's ToolHandler.        *)
(*                                                                         *)
(* A Go string is a sequence of one-character strings, so that             *)
(* strings.TrimPrefix, strings.TrimSpace, strings.HasPrefix and path.Join  *)
(* are computed, not assumed.                                              *)
(***************************************************************************)
EXTENDS Integers, Sequences, FiniteSets, TLC

\* ------------------------------------------------------------------ bounds

\* The longest authTokens list a backend is configured with.
MaxTokens == 2

\* The largest number of backends in config.McpServers.
MaxBackends == 2

\* The pages a backend serves for one capability family, at most.
MaxPages == 2

\* The pings a ping task sends, at most.
MaxPings == 2

\* The longest authTokens list of a config file under load.
MaxCfgTokens == 1

\* ----------------------------------------------------------------- strings

\* unicode.IsSpace, on the characters the model uses.
IsSpace(c) == c \in {" ", "\t"}

RECURSIVE TrimLeft(_)
TrimLeft(s) ==
    IF s # <<>> /\ IsSpace(Head(s)) THEN TrimLeft(Tail(s)) ELSE s

RECURSIVE TrimRight(_)
TrimRight(s) ==
    IF s # <<>> /\ IsSpace(s[Len(s)]) THEN TrimRight(SubSeq(s, 1, Len(s) - 1)) ELSE s

\* strings.TrimSpace
TrimSpace(s) == TrimRight(TrimLeft(s))

\* strings.HasPrefix
HasPrefix(s, prefix) ==
    Len(s) >= Len(prefix) /\ SubSeq(s, 1, Len(prefix)) = prefix

\* strings.HasSuffix
HasSuffix(s, suffix) ==
    Len(s) >= Len(suffix) /\ SubSeq(s, Len(s) - Len(suffix) + 1, Len(s)) = suffix

\* strings.TrimPrefix
TrimPrefix(s, prefix) ==
    IF HasPrefix(s, prefix) THEN SubSeq(s, Len(prefix) + 1, Len(s)) ELSE s

\* The literal "Bearer " of newAuthMiddleware.
BearerPrefix == <<"B", "e", "a", "r", "e", "r", " ">>

\* ------------------------------------------------- requests and token lists

\* The token strings a configuration may list: "", "s", "w".
TokenUniverse == { <<>>, <<"s">>, <<"w">> }

\* Every list of at most n tokens.
TokenLists(n) == UNION { [1..k -> TokenUniverse] : k \in 0..n }

\* What a client may put before the credential in its Authorization header:
\* nothing, "Bearer ", "Bearer" without the space, "bearer ", "Basic ".
Schemes ==
    { <<>>,
      BearerPrefix,
      <<"B", "e", "a", "r", "e", "r">>,
      <<"b", "e", "a", "r", "e", "r", " ">>,
      <<"B", "a", "s", "i", "c", " ">> }

\* The credentials a client may send: the configurable tokens and one more.
Credentials == TokenUniverse \cup { <<"x">> }

Pads == { <<>>, <<" ">> }

\* The Authorization header values of the model.
HeaderValues ==
    { sc \o lp \o cr \o rp : sc \in Schemes, lp \in Pads, cr \in Credentials, rp \in Pads }

\* A request: whether it carries an Authorization header, and its value.
Requests ==
    { [hasAuth |-> FALSE, auth |-> <<>>] }
        \cup { [hasAuth |-> TRUE, auth |-> h] : h \in HeaderValues }

\* r.Header.Get("Authorization"): "" when the header is absent.
HeaderGet(r) == IF r.hasAuth THEN r.auth ELSE <<>>

\* -------------------------------------------------------------------- paths

\* strings.Split(s, "/"): the segments between the slashes.
RECURSIVE SplitSlash(_)
SplitSlash(s) ==
    IF \A i \in DOMAIN s : s[i] # "/"
        THEN <<s>>
        ELSE LET i == CHOOSE k \in DOMAIN s :
                          s[k] = "/" /\ \A j \in 1..(k - 1) : s[j] # "/"
             IN  <<SubSeq(s, 1, i - 1)>> \o SplitSlash(SubSeq(s, i + 1, Len(s)))

\* The segments joined again, one "/" between two.
RECURSIVE JoinSlash(_)
JoinSlash(segs) ==
    IF segs = <<>>
        THEN <<>>
        ELSE IF Len(segs) = 1
                 THEN Head(segs)
                 ELSE Head(segs) \o <<"/">> \o JoinSlash(Tail(segs))

\* path.Clean's pass over the segments: "" and "." are dropped, ".." removes the
\* element before it, is dropped at the root and is kept at the start of a
\* relative path.
RECURSIVE CleanSegs(_, _, _)
CleanSegs(segs, out, rooted) ==
    IF segs = <<>>
        THEN out
        ELSE LET seg == Head(segs)
             IN  IF seg = <<>> \/ seg = <<".">>
                     THEN CleanSegs(Tail(segs), out, rooted)
                     ELSE IF seg = <<".", ".">>
                              THEN IF out # <<>> /\ out[Len(out)] # <<".", ".">>
                                       THEN CleanSegs(Tail(segs), SubSeq(out, 1, Len(out) - 1), rooted)
                                       ELSE IF rooted
                                                THEN CleanSegs(Tail(segs), out, rooted)
                                                ELSE CleanSegs(Tail(segs), Append(out, seg), rooted)
                              ELSE CleanSegs(Tail(segs), Append(out, seg), rooted)

\* path.Clean
Clean(p) ==
    IF p = <<>>
        THEN <<".">>
        ELSE LET rooted == p[1] = "/"
                 body   == JoinSlash(CleanSegs(SplitSlash(p), <<>>, rooted))
                 out    == (IF rooted THEN <<"/">> ELSE <<>>) \o body
             IN  IF out = <<>> THEN <<".">> ELSE out

\* path.Join(a, b): the non-empty elements with "/" between them, cleaned; ""
\* when both are empty.
Join(a, b) ==
    IF Len(a) + Len(b) = 0
        THEN <<>>
        ELSE LET buf1 == a
                 buf2 == IF Len(buf1) > 0 \/ b # <<>>
                             THEN (IF Len(buf1) > 0 THEN buf1 \o <<"/">> ELSE buf1) \o b
                             ELSE buf1
             IN  Clean(buf2)

McpRouteNoTrailingSlash(basePath, name) ==
    LET joined == Join(basePath, name)
    IN  IF ~HasPrefix(joined, <<"/">>) THEN <<"/">> \o joined ELSE joined

\* mcpRoute of startHTTPServer: path.Join(baseURL.Path, name), made to start
\* and to end with "/".
McpRoute(basePath, name) ==
    LET joined  == Join(basePath, name)
        leading == IF ~HasPrefix(joined, <<"/">>) THEN <<"/">> \o joined ELSE joined
    IN  IF ~HasSuffix(leading, <<"/">>) THEN leading \o <<"/">> ELSE leading

\* ------------------------------------------------------------ configurations

\* The backend names of the model: "a", "b" and "a/".
NameUniverse == { <<"a">>, <<"b">>, <<"a", "/">> }

\* The paths of config.McpProxy.BaseURL: "" and "/api".
BasePaths == { <<>>, <<"/", "a", "p", "i">> }

\* What parseMCPClientConfig makes of a backend's config.
Kinds == { "stdio", "sse", "streamable-http" }

\* needManualStart and needPing of the Client newMCPClient returns.
NeedManualStartAlways(kind) == TRUE

NeedManualStart(kind) == kind \in { "sse", "streamable-http" }

NeedPingAlways(kind) == TRUE

NeedPing(kind) == kind \in { "sse", "streamable-http" }

\* A backend's config, after load: its kind and its effective panicIfInvalid.
\* A streamable-http client has the needManualStart and the needPing of an sse
\* client, and the life cycle tells the kinds apart by nothing else.
ClientConfigs == [kind : { "stdio", "sse" }, panicIfInvalid : BOOLEAN]

\* Every config.McpServers of at most n backends.
ServerMaps(n) ==
    UNION { [names -> ClientConfigs] :
                names \in { ns \in SUBSET NameUniverse : Cardinality(ns) <= n } }

\* -------------------------------------------------------------- config file

\* optional.Field[bool]: not present, or present with a value.
Tri == { "unset", "false", "true" }

\* Field.Present.
Present(field) == field # "unset"

\* Field.OrElse.
OrElse(field, default) == IF Present(field) THEN field = "true" ELSE default

\* Options.AuthTokens: a nil slice, or a list.
NilTokens == [isNil |-> TRUE, list |-> <<>>]

TokenSlices ==
    { NilTokens } \cup [isNil : { FALSE }, list : TokenLists(MaxCfgTokens)]

\* The constants of ToolFilterMode.
ToolFilterModeAllow == <<"a", "l", "l", "o", "w">>

ToolFilterModeBlock == <<"b", "l", "o", "c", "k">>

\* Options.ToolFilter: nil, or a mode and a list.
NoToolFilter == [present |-> FALSE, mode |-> <<>>, list |-> <<>>]

\* The values of Options.ToolFilter in a config file: nil, or a list that
\* allows t1 only.
CfgToolFilters ==
    { NoToolFilter, [present |-> TRUE, mode |-> ToolFilterModeAllow, list |-> <<"t1">>] }

\* *Options: nil, or the struct.
NilOptions ==
    [present |-> FALSE, panicIfInvalid |-> "unset", logEnabled |-> "unset",
     authTokens |-> NilTokens, toolFilter |-> NoToolFilter]

\* &Options{}.
EmptyOptions ==
    [present |-> TRUE, panicIfInvalid |-> "unset", logEnabled |-> "unset",
     authTokens |-> NilTokens, toolFilter |-> NoToolFilter]

\* The options of the model: every authTokens without a toolFilter, and every
\* toolFilter without authTokens.
OptionPointers ==
    { NilOptions }
        \cup [present : { TRUE }, panicIfInvalid : Tri, logEnabled : Tri,
              authTokens : TokenSlices, toolFilter : { NoToolFilter }]
        \cup [present : { TRUE }, panicIfInvalid : Tri, logEnabled : Tri,
              authTokens : { NilTokens }, toolFilter : CfgToolFilters]

\* MCPClientConfig.TransportType: unset, or one of the three constants.
TransportTypes == { "", "stdio", "sse", "streamable-http" }

\* MCPClientConfig.Command and MCPClientConfig.URL: empty or not.
Commands == { "", "npx" }

Urls == { "", "http://h/sse" }

\* MCPClientConfig, as decoded.
RawClientConfigs ==
    [transportType : TransportTypes, command : Commands, url : Urls,
     options : OptionPointers]

\* Config.McpProxy == nil.
NoProxy == [present |-> FALSE, options |-> NilOptions]

\* Config, as decoded: mcpProxy (or nil) and one backend of mcpServers.
RawConfigs ==
    [mcpProxy : { NoProxy } \cup [present : { TRUE }, options : OptionPointers],
     backend : RawClientConfigs]

ParseUrlFirst(conf) ==
    IF conf.url # ""
        THEN IF conf.transportType = "streamable-http"
                 THEN [kind |-> "streamable-http", err |-> ""]
                 ELSE [kind |-> "sse", err |-> ""]
        ELSE IF conf.command # "" \/ conf.transportType = "stdio"
                 THEN IF conf.command = ""
                          THEN [kind |-> "none",
                                err |-> "command is required for stdio transport"]
                          ELSE [kind |-> "stdio", err |-> ""]
                 ELSE [kind |-> "none", err |-> "invalid server type"]

\* parseMCPClientConfig: the kind of config it returns, or its error.
parseMCPClientConfig(conf) ==
    IF conf.command # "" \/ conf.transportType = "stdio"
        THEN IF conf.command = ""
                 THEN [kind |-> "none", err |-> "command is required for stdio transport"]
                 ELSE [kind |-> "stdio", err |-> ""]
        ELSE IF conf.url # ""
                 THEN IF conf.transportType = "streamable-http"
                          THEN [kind |-> "streamable-http", err |-> ""]
                          ELSE [kind |-> "sse", err |-> ""]
                 ELSE [kind |-> "none", err |-> "invalid server type"]

InheritsTokensWhenEmpty(authTokens) == Len(authTokens.list) = 0

\* load's test for the inheritance of authTokens: AuthTokens == nil.
InheritsTokens(authTokens) == authTokens.isNil

LoadedToolFilterInherited(proxyFilter, ownFilter) ==
    IF ownFilter.present THEN ownFilter ELSE proxyFilter

\* The backend's ToolFilter after the loop body of load, which has no
\* statement on it: the pointer the backend's options held.
LoadedToolFilter(proxyFilter, ownFilter) == ownFilter

\* The loop body of load: the backend's options after defaults and inheritance
\* from the proxy's options.
InheritOptions(proxyOptions, clientOptions) ==
    LET own == IF ~clientOptions.present THEN EmptyOptions ELSE clientOptions
    IN  [present |-> TRUE,
         authTokens |->
             IF InheritsTokens(own.authTokens)
                 THEN proxyOptions.authTokens
                 ELSE own.authTokens,
         panicIfInvalid |->
             IF ~Present(own.panicIfInvalid)
                 THEN proxyOptions.panicIfInvalid
                 ELSE own.panicIfInvalid,
         logEnabled |->
             IF ~Present(own.logEnabled)
                 THEN proxyOptions.logEnabled
                 ELSE own.logEnabled,
         toolFilter |-> LoadedToolFilter(proxyOptions.toolFilter, own.toolFilter)]

\* load, after decoding: an error without mcpProxy, otherwise the Config with
\* the proxy's options defaulted and the backend's options inherited.
load(conf) ==
    IF ~conf.mcpProxy.present
        THEN [err |-> "mcpProxy is required", conf |-> conf]
        ELSE LET proxyOptions ==
                     IF ~conf.mcpProxy.options.present
                         THEN EmptyOptions
                         ELSE conf.mcpProxy.options
             IN  [err |-> "",
                  conf |->
                      [mcpProxy |-> [present |-> TRUE, options |-> proxyOptions],
                       backend |->
                           [conf.backend EXCEPT
                               !.options = InheritOptions(proxyOptions, @)]]]

\* The JSON object json.Marshal writes for *Options under the struct tags: a
\* nil pointer and an empty authTokens are omitted (omitempty); an
\* optional.Field is a struct, which omitempty never omits, and is written by
\* its own encoder: its value, or null when it is not present.
NoJsonOptions ==
    [present |-> FALSE, panicIfInvalid |-> "null", logEnabled |-> "null",
     authTokens |-> [present |-> FALSE, list |-> <<>>], toolFilter |-> NoToolFilter]

\* toolFilter,omitempty: a nil pointer is omitted; of the struct written, an
\* empty mode and an empty list are omitted and decode to their zero values.
EncodeToolFilter(filter) ==
    IF ~filter.present
        THEN NoToolFilter
        ELSE [present |-> TRUE, mode |-> filter.mode, list |-> filter.list]

EncodeField(field) == IF Present(field) THEN field ELSE "null"

EncodeOptions(options) ==
    IF ~options.present
        THEN NoJsonOptions
        ELSE [present |-> TRUE,
              panicIfInvalid |-> EncodeField(options.panicIfInvalid),
              logEnabled |-> EncodeField(options.logEnabled),
              authTokens |->
                  IF Len(options.authTokens.list) = 0
                      THEN [present |-> FALSE, list |-> <<>>]
                      ELSE [present |-> TRUE, list |-> options.authTokens.list],
              toolFilter |-> EncodeToolFilter(options.toolFilter)]

EncodeConfig(conf) ==
    [mcpProxy |-> [present |-> conf.mcpProxy.present,
                   options |-> EncodeOptions(conf.mcpProxy.options)],
     backend |-> [conf.backend EXCEPT !.options = EncodeOptions(@)]]

\* The decoding of the JSON object: an absent key leaves its field at the zero
\* value; null leaves an optional.Field not present, or (nullIsSet) present
\* with the zero value, as the field's decoder has it.
DecodeField(value, nullIsSet) ==
    IF value = "null" THEN (IF nullIsSet THEN "false" ELSE "unset") ELSE value

DecodeOptions(json, nullIsSet) ==
    IF ~json.present
        THEN NilOptions
        ELSE [present |-> TRUE,
              panicIfInvalid |-> DecodeField(json.panicIfInvalid, nullIsSet),
              logEnabled |-> DecodeField(json.logEnabled, nullIsSet),
              authTokens |->
                  IF json.authTokens.present
                      THEN [isNil |-> FALSE, list |-> json.authTokens.list]
                      ELSE NilTokens,
              toolFilter |->
                  IF json.toolFilter.present
                      THEN [present |-> TRUE, mode |-> json.toolFilter.mode,
                            list |-> json.toolFilter.list]
                      ELSE NoToolFilter]

DecodeConfig(json, nullIsSet) ==
    [mcpProxy |-> [present |-> json.mcpProxy.present,
                   options |-> DecodeOptions(json.mcpProxy.options, nullIsSet)],
     backend |-> [json.backend EXCEPT !.options = DecodeOptions(@, nullIsSet)]]

\* The options startHTTPServer acts on: OrElse(false) of the two fields, and
\* the tokens of the list.
Effective(options) ==
    [panicIfInvalid |-> OrElse(options.panicIfInvalid, FALSE),
     logEnabled |-> OrElse(options.logEnabled, FALSE),
     authTokens |-> options.authTokens.list]

\* ------------------------------------------------------------ capabilities

\* The four capability families, in the order addToMCPServer lists them.
Families == <<"tools", "prompts", "resources", "templates">>

FamilySet == { Families[i] : i \in DOMAIN Families }

\* The names a backend advertises: two tools, and in every other family an
\* item that bears the name of a tool.
ItemNames(f) == IF f = "tools" THEN { "t1", "t2" } ELSE { "t2" }

\* The values of NextCursor: "" when the backend sends none.
Cursors == { "", "c1", "c2" }

\* What a list call returns: an error, or a page with its items' names and
\* its NextCursor.
Responses(f) ==
    { [err |-> TRUE, items |-> {}, next |-> ""] }
        \cup [err : { FALSE }, items : SUBSET ItemNames(f), next : Cursors]

\* The method of the backend client a registration's callback forwards to.
CallbackOf(f) ==
    CASE f = "tools" -> "CallTool"
      [] f = "prompts" -> "GetPrompt"
      [] f = "resources" -> "ReadResource"
      [] f = "templates" -> "ReadResource"

\* mcpServer.AddTool / AddPrompt / AddResource / AddResourceTemplate: the
\* registration of an item with its callback into c.client.
Registration(f, name) == [name |-> name, callback |-> CallbackOf(f)]

\* strings.ToLower, letter by letter.
UpperLetters ==
    <<"A", "B", "C", "D", "E", "F", "G", "H", "I", "J", "K", "L", "M",
      "N", "O", "P", "Q", "R", "S", "T", "U", "V", "W", "X", "Y", "Z">>

LowerLetters ==
    <<"a", "b", "c", "d", "e", "f", "g", "h", "i", "j", "k", "l", "m",
      "n", "o", "p", "q", "r", "s", "t", "u", "v", "w", "x", "y", "z">>

ToLowerChar(c) ==
    IF \E i \in DOMAIN UpperLetters : UpperLetters[i] = c
        THEN LowerLetters[CHOOSE i \in DOMAIN UpperLetters : UpperLetters[i] = c]
        ELSE c

ToLower(s) == [i \in DOMAIN s |-> ToLowerChar(s[i])]

\* The values of ToolFilterConfig.Mode: "allow", "Allow", "block", "BLOCK", "deny".
FilterModes ==
    { ToolFilterModeAllow, <<"A", "l", "l", "o", "w">>,
      ToolFilterModeBlock, <<"B", "L", "O", "C", "K">>,
      <<"d", "e", "n", "y">> }

\* The values of ToolFilterConfig.List.
FilterLists == { <<>>, <<"t1">>, <<"t1", "t2">> }

\* Options.ToolFilter of a backend under initialization.
ToolFilters ==
    { NoToolFilter } \cup [present : { TRUE }, mode : FilterModes, list : FilterLists]

\* filterSet of addToolsToServer: the names of the list.
FilterSet(list) == { list[i] : i \in DOMAIN list }

FilterConfiguredWhenPresent(filter) == filter.present

\* The condition under which addToolsToServer builds a filter at all.
FilterConfigured(filter) == filter.present /\ Len(filter.list) > 0

BuildFilterCaseSensitive(filter) ==
    IF FilterConfigured(filter)
        THEN CASE filter.mode = ToolFilterModeAllow -> [func |-> "allow", warnings |-> 0]
               [] filter.mode = ToolFilterModeBlock -> [func |-> "block", warnings |-> 0]
               [] OTHER -> [func |-> "all", warnings |-> 1]
        ELSE [func |-> "all", warnings |-> 0]

BuildFilterSilent(filter) ==
    IF FilterConfigured(filter)
        THEN LET mode == ToLower(filter.mode)
             IN  CASE mode = ToolFilterModeAllow -> [func |-> "allow", warnings |-> 0]
                   [] mode = ToolFilterModeBlock -> [func |-> "block", warnings |-> 0]
                   [] OTHER -> [func |-> "all", warnings |-> 0]
        ELSE [func |-> "all", warnings |-> 0]

\* The head of addToolsToServer: which filterFunc it builds (admit all, the
\* allow list, the block list) and the "Unknown tool filter mode" lines it logs.
BuildFilter(filter) ==
    IF FilterConfigured(filter)
        THEN LET mode == ToLower(filter.mode)
             IN  CASE mode = ToolFilterModeAllow -> [func |-> "allow", warnings |-> 0]
                   [] mode = ToolFilterModeBlock -> [func |-> "block", warnings |-> 0]
                   [] OTHER -> [func |-> "all", warnings |-> 1]
        ELSE [func |-> "all", warnings |-> 0]

\* filterFunc(toolName) of addToolsToServer.
FilterFunc(filter, toolName) ==
    LET inList == toolName \in FilterSet(filter.list)
    IN  CASE BuildFilter(filter).func = "allow" -> inList
          [] BuildFilter(filter).func = "block" -> ~inList
          [] OTHER -> TRUE

\* The items of a page that are registered: all of them, but for tools those
\* filterFunc admits.
AdmittedFilteredInEveryFamily(f, filter, items) ==
    { n \in items : FilterFunc(filter, n) }

Admitted(f, filter, items) ==
    IF f = "tools" THEN { n \in items : FilterFunc(filter, n) } ELSE items

BreaksOnlyOnEmptyCursor(page) == FALSE

\* The first break of the paging loops: a page without items.
BreaksOnEmptyPage(page) == Cardinality(page.items) = 0

\* The second break of the paging loops: a page without NextCursor.
BreaksOnEmptyCursor(page) == page.next = ""

\* toolsRequest.Params.Cursor = tools.NextCursor: the cursor of the next
\* request of the family.
NextRequestCursorEmpty(page) == ""

NextRequestCursor(page) == page.next

\* `_ = c.client.Ping(ctx)`: whether the error of a ping ends the ping loop.
PingErrEndsTaskOnError(err) == err

PingErrEndsTask(err) == FALSE

RegisteredAfterListErrNone(registered) == {}

\* `if err != nil { return err }` in a paging loop: what the family has
\* registered on the MCP server once the call has returned the error.
RegisteredAfterListErr(registered) == registered

ListErrAlwaysFatal(f) == TRUE

\* Whether addToMCPServer returns the error of a family's listing: it does for
\* tools, and drops it ("_ =") for prompts, resources and resource templates.
ListErrIsFatal(f) == f = "tools"

\* ---------------------------------------------------------------- variables

VARIABLES
    mwOpts,        \* the mounted backend's effective Options (logEnabled, authTokens)
    phase,         \* "idle", "calling", "returning", "done": the request in flight
    req,           \* the request being served
    depth,         \* the number of handler frames on the call stack
    entered,       \* the layers entered, in the order they began to run
    returned,      \* the layers returned, in the order they returned
    status,        \* the HTTP status written, 0 when none
    backendCalls,  \* the calls that reached the SSE handler's backend
    logLines,      \* the access-log lines written for this request
    panicking,     \* a panic is unwinding the stack
    panicked,      \* how the SSE handler panicked on this request: "no", before or
                   \* after it wrote the response header
    recovered      \* a panic of an earlier request on this route was recovered

mwVars ==
    <<mwOpts, phase, req, depth, entered, returned, status, backendCalls, logLines,
      panicking, panicked, recovered>>

VARIABLES
    basePath,      \* baseURL.Path
    servers,       \* config.McpServers: name -> the backend's config
    proc,          \* the process: "running", or how it ended
    mainPc,        \* where startHTTPServer is: "loop", "wait_signal", "shutdown",
                   \* "returned"
    task,          \* name -> the backend's initialization task (errorGroup.Go)
    initResult,    \* name -> how addToMCPServer ended: "none", "ok" or the failed step
    client,        \* name -> the backend client's transport: "none", "created", "started",
                   \* or "failed" when newMCPClient returned an error
    closes,        \* name -> the number of Close calls on the backend client
    pings,         \* the backends whose ping task was forked
    groupErr,      \* errorGroup holds an error
    routes,        \* httpMux: the registered patterns, each with its backend
    hook,          \* name -> its shutdown hook: "none", "registered", "launched", "done"
    waiter,        \* the goroutine of errorGroup.Wait: "none", "waiting", "done"
    listener,      \* the goroutine of ListenAndServe: "none", "forked", "serving",
                   \* "closed" after serving, "not_served" when Shutdown came first
    inShutdown,    \* httpServer.Shutdown was called
    signalled,     \* a SIGINT or SIGTERM is in sigChan
    pingExited,    \* the backends whose ping task has returned
    shutdownErr,   \* what httpServer.Shutdown returned: "none" before it returns
    retErr         \* what startHTTPServer returned: "none" before it returns

lifeVars ==
    <<basePath, servers, proc, mainPc, task, initResult, client, closes, pings, groupErr,
      routes, hook, waiter, listener, inShutdown, signalled, pingExited, shutdownErr,
      retErr>>

VARIABLES
    iKind,         \* the backend's kind (stdio, sse, streamable-http)
    iPanic,        \* the backend's effective panicIfInvalid as the task read it
    iFilter,       \* the backend's options.ToolFilter
    iPc,           \* where addToMCPServer is: "start", "initialize", "filter", a
                   \* family being listed, "ping", "returned"
    iTask,         \* the initialization task: "running", "mounted", "skipped", "failed"
    iErr,          \* what addToMCPServer returned: "none", "ok" or the failed step
    iClient,       \* the client's transport: "created", "started"
    iCursor,       \* Params.Cursor of the family's list request
    iPage,         \* the pages fetched in the family being listed
    iLast,         \* the last list exchange of the call in progress: the family, the
                   \* request's number in the family, the cursor sent, the page received
    iRegistered,   \* family -> the registrations on the backend's MCP server
    iFetched,      \* family -> the names of the items of the pages received
    iFamilyErr,    \* the families whose listing returned an error that was dropped
    iWarnings,     \* the "Unknown tool filter mode" lines logged
    iPing,         \* the ping task: "none", "running", "exited"
    iTick,         \* a tick waits in ticker.C
    iCtx,          \* the gateway context is cancelled
    iPingsSent,    \* the pings sent to the backend
    iPingErrs,     \* the pings sent that returned an error
    iCalls         \* the calls made on the backend client: "Start", "Initialize",
                   \* the families listed

initVars ==
    <<iKind, iPanic, iFilter, iPc, iTask, iErr, iClient, iCursor, iPage, iLast,
      iRegistered, iFetched, iFamilyErr, iWarnings, iPing, iTick, iCtx, iPingsSent,
      iPingErrs, iCalls>>

VARIABLES
    cConf,         \* the Config decoded from the file
    cStage,        \* "raw", "loaded", "parsed", "serialized", "reloaded", "error"
    cLoaded,       \* the Config load returns
    cParsed,       \* what parseMCPClientConfig returns for the backend
    cJson,         \* the JSON written from the loaded Config's options
    cReloaded      \* the Config load returns for cJson

cfgVars == <<cConf, cStage, cLoaded, cParsed, cJson, cReloaded>>

\* One server of the multi-adapter gateway under initialization.
VARIABLES
    aProxy,        \* adapter_proxy.options of the config file
    aServer,       \* the server's options of the config file
    aTools,        \* the names of the server's configured tools, in order
    aConf,         \* the options of both levels as LoadNewConfig returns them
    aPc,           \* where the server's task is: "load", "tools", "added", "failed",
                   \* "mounted", "skipped"
    aIdx,          \* the index of the next tool of the loop over ai.Tools
    aRegistered    \* the names of the tools registered on the server's MCP server

adVars == <<aProxy, aServer, aTools, aConf, aPc, aIdx, aRegistered>>

\* Two backends of the gateway and the requests on their routes.
VARIABLES
    qConf,         \* name -> the backend's logEnabled and whether it has auth tokens
    qCur,          \* the name the loop over config.McpServers is at
    qTask,         \* name -> the task of the iteration: "none", "forked", "connected",
                   \* "mounted"
    qReg,          \* name -> the registrations on the MCP server made in the iteration
    qRoutes,       \* httpMux: pattern, sseServer, and what the middlewares were built from
    qPanic,        \* httpMux.Handle panicked on a pattern registered twice
    qLast          \* the last request served: its route, token and call, the status,
                   \* the client reached, the prefix of the log line

isoVars == <<qConf, qCur, qTask, qReg, qRoutes, qPanic, qLast>>

VARIABLES
    hMapping,      \* ToolConfig.HTTPMapping.ParameterMapping: source, required, default
    hMethod,       \* ToolConfig.HTTPMapping.Method
    hErrorMapping, \* the status codes of ToolConfig.ErrorMapping
    hArgs,         \* req.Params.Arguments: whether it is a map, and its keys
    hPc,           \* where Handle is: "idle", "start", "send", "after", "process",
                   \* "returned"
    hI,            \* i of the retry loop
    hOutcomes,     \* for each call of h.Client.Do so far, whether it returned an error
    hErr,          \* err after the last call of h.Client.Do is not nil
    hResp,         \* the call whose response resp holds, 0 for none
    hSlept,        \* the seconds slept between attempts
    hProcessed,    \* the call whose response was read and processed, 0 for none
    hResult        \* what Handle returned: "none", "result" or the error

handleVars ==
    <<hMapping, hMethod, hErrorMapping, hArgs, hPc, hI, hOutcomes, hErr, hResp, hSlept,
      hProcessed, hResult>>

vars == <<mwVars, lifeVars, initVars, cfgVars, adVars, isoVars, handleVars>>

\* The variables each part of the model leaves alone.
notMw == <<lifeVars, initVars, cfgVars, adVars, isoVars, handleVars>>

notLife == <<mwVars, initVars, cfgVars, adVars, isoVars, handleVars>>

notInit == <<mwVars, lifeVars, cfgVars, adVars, isoVars, handleVars>>

notCfg == <<mwVars, lifeVars, initVars, adVars, isoVars, handleVars>>

notAd == <<mwVars, lifeVars, initVars, cfgVars, isoVars, handleVars>>

notIso == <<mwVars, lifeVars, initVars, cfgVars, adVars, handleVars>>

\* What a step of the tool call leaves unchanged.
notHandle == <<mwVars, lifeVars, initVars, cfgVars, adVars, isoVars>>

\* The zero Config, and what is written from it.
NoConfig ==
    [mcpProxy |-> NoProxy,
     backend |-> [transportType |-> "", command |-> "", url |-> "", options |-> NilOptions]]

NoJson == EncodeConfig(NoConfig)

NotParsed == [kind |-> "none", err |-> ""]

\* No config file is under load in SpecCfg.
CfgIdle ==
    /\ cConf = NoConfig
    /\ cStage = "idle"
    /\ cLoaded = NoConfig
    /\ cParsed = NotParsed
    /\ cJson = NoJson
    /\ cReloaded = NoConfig

\* A nil *ToolFilterConfig and a nil *Options of the adapter's config.
NoAdapterFilter == [present |-> FALSE, mode |-> "", tools |-> <<>>]

NilAdapterOptions == [set |-> FALSE, toolFilter |-> NoAdapterFilter]

\* No adapter server is under initialization in SpecAdapter.
AdIdle ==
    /\ aProxy = NilAdapterOptions
    /\ aServer = NilAdapterOptions
    /\ aTools = <<>>
    /\ aConf = [proxy |-> NilAdapterOptions, server |-> NilAdapterOptions]
    /\ aPc = "skipped"
    /\ aIdx = 1
    /\ aRegistered = {}

\* No request has been served.
NoCall ==
    [route |-> "none", token |-> "none", call |-> "none", status |-> 0, client |-> "none",
     logged |-> "none"]

\* No backend is mounted in SpecIso.
IsoIdle ==
    /\ qConf = <<>>
    /\ qCur = "none"
    /\ qTask = <<>>
    /\ qReg = <<>>
    /\ qRoutes = {}
    /\ qPanic = FALSE
    /\ qLast = NoCall

\* No tool call is under way.
HandleIdle ==
    /\ hMapping = <<>>
    /\ hMethod = ""
    /\ hErrorMapping = {}
    /\ hArgs = [isMap |-> FALSE, keys |-> {}]
    /\ hPc = "idle"
    /\ hI = 0
    /\ hOutcomes = <<>>
    /\ hErr = FALSE
    /\ hResp = 0
    /\ hSlept = 0
    /\ hProcessed = 0
    /\ hResult = "none"

\* No list exchange has taken place.
NoExchange ==
    [family |-> "none", index |-> 0, sent |-> "",
     page |-> [err |-> FALSE, items |-> {}, next |-> ""]]

\* No backend is under initialization in SpecInit.
InitIdle ==
    /\ iKind = "stdio"
    /\ iPanic = FALSE
    /\ iFilter = NoToolFilter
    /\ iPc = "returned"
    /\ iTask = "skipped"
    /\ iErr = "none"
    /\ iClient = "started"
    /\ iCursor = ""
    /\ iPage = 0
    /\ iLast = NoExchange
    /\ iRegistered = [f \in FamilySet |-> {}]
    /\ iFetched = [f \in FamilySet |-> {}]
    /\ iFamilyErr = {}
    /\ iWarnings = 0
    /\ iPing = "none"
    /\ iTick = FALSE
    /\ iCtx = FALSE
    /\ iPingsSent = 0
    /\ iPingErrs = 0
    /\ iCalls = {}

\* ------------------------------------------------------------ the middleware

\* tokenSet of newAuthMiddleware: the elements of the tokens list.
TokenSet(tokens) == { tokens[i] : i \in DOMAIN tokens }

AuthAcceptsAnyToken(tokens, authorization) ==
    IF Len(tokens) # 0
        THEN TrimSpace(TrimPrefix(authorization, BearerPrefix)) # <<>>
        ELSE TRUE

\* The handler of newAuthMiddleware: TRUE when it calls next.ServeHTTP, FALSE
\* when it answers 401.
AuthAccepts(tokens, authorization) ==
    IF Len(tokens) # 0
        THEN LET token == TrimSpace(TrimPrefix(authorization, BearerPrefix))
             IN  IF token = <<>>
                     THEN FALSE
                     ELSE IF token \notin TokenSet(tokens) THEN FALSE ELSE TRUE
        ELSE TRUE

\* The middlewares slice startHTTPServer builds for a backend.
Middlewares(opts) ==
    <<"recover">>
        \o (IF opts.logEnabled THEN <<"log">> ELSE <<>>)
        \o (IF Len(opts.authTokens) > 0 THEN <<"auth">> ELSE <<>>)

\* mw(h): a handler is the sequence of its layers, outermost first.
Wrap(mw, h) == <<mw>> \o h

\* chainMiddleware: for _, mw := range middlewares { h = mw(h) }.
RECURSIVE chainMiddleware(_, _)
chainMiddleware(h, middlewares) ==
    IF middlewares = <<>>
        THEN h
        ELSE chainMiddleware(Wrap(Head(middlewares), h), Tail(middlewares))

\* The handler httpMux.Handle is given: the chain around server.sseServer.
RouteHandler(opts) == chainMiddleware(<<"sse">>, Middlewares(opts))

\* ------------------------------------------------- one request on the route

\* The layer about to run: the next one of the mounted handler.
NextLayer == RouteHandler(mwOpts)[depth + 1]

\* No gateway is starting: the route under study is mounted and served.
LifeIdle ==
    /\ basePath = <<>>
    /\ servers = <<>>
    /\ proc = "running"
    /\ mainPc = "wait_signal"
    /\ task = <<>>
    /\ initResult = <<>>
    /\ client = <<>>
    /\ closes = <<>>
    /\ pings = {}
    /\ groupErr = FALSE
    /\ routes = {}
    /\ hook = <<>>
    /\ waiter = "done"
    /\ listener = "serving"
    /\ inShutdown = FALSE
    /\ signalled = FALSE
    /\ pingExited = {}
    /\ shutdownErr = "none"
    /\ retErr = "none"

\* The mounted backend's options: any logEnabled, any list of tokens.
MWInit ==
    /\ mwOpts \in [logEnabled : BOOLEAN, authTokens : TokenLists(MaxTokens)]
    /\ phase = "idle"
    /\ req = [hasAuth |-> FALSE, auth |-> <<>>]
    /\ depth = 0
    /\ entered = <<>>
    /\ returned = <<>>
    /\ status = 0
    /\ backendCalls = 0
    /\ logLines = 0
    /\ panicking = FALSE
    /\ panicked = "no"
    /\ recovered = FALSE
    /\ LifeIdle
    /\ InitIdle
    /\ CfgIdle
    /\ AdIdle
    /\ IsoIdle
    /\ HandleIdle

\* The mux hands a request to the route's handler.
Arrive(r) ==
    /\ phase \in {"idle", "done"}
    /\ req' = r
    /\ phase' = "calling"
    /\ depth' = 0
    /\ entered' = <<>>
    /\ returned' = <<>>
    /\ status' = 0
    /\ backendCalls' = 0
    /\ logLines' = 0
    /\ panicking' = FALSE
    /\ panicked' = "no"
    /\ recovered' = (recovered \/ (phase = "done" /\ panicked # "no" /\ ~panicking))
    /\ UNCHANGED <<mwOpts, notMw>>

\* The handler of recoverMiddleware begins: it defers the recover and calls next.
RecoverServe ==
    /\ phase = "calling"
    /\ NextLayer = "recover"
    /\ entered' = Append(entered, "recover")
    /\ depth' = depth + 1
    /\ UNCHANGED <<mwOpts, phase, req, returned, status, backendCalls, logLines, panicking,
                   panicked, recovered, notMw>>

\* The handler of loggerMiddleware: one log line, then next.
LogServe ==
    /\ phase = "calling"
    /\ NextLayer = "log"
    /\ entered' = Append(entered, "log")
    /\ logLines' = logLines + 1
    /\ depth' = depth + 1
    /\ UNCHANGED <<mwOpts, phase, req, returned, status, backendCalls, panicking, panicked,
                   recovered, notMw>>

\* The handler of newAuthMiddleware: 401 and return, or next.
AuthServe ==
    /\ phase = "calling"
    /\ NextLayer = "auth"
    /\ entered' = Append(entered, "auth")
    /\ depth' = depth + 1
    /\ IF AuthAccepts(mwOpts.authTokens, HeaderGet(req))
           THEN UNCHANGED <<phase, status>>
           ELSE phase' = "returning" /\ status' = 401
    /\ UNCHANGED <<mwOpts, req, returned, backendCalls, logLines, panicking, panicked,
                   recovered, notMw>>

\* The ways server.sseServer may end a request: it returns, it panics before it
\* has written the response header, it panics after it has written it.
PanicModes == { "no", "before_write", "after_write" }

\* server.sseServer serves the request: it reaches the backend and answers, or
\* it panics, with or without the response header (200) written.
SseServe(panics) ==
    /\ phase = "calling"
    /\ NextLayer = "sse"
    /\ entered' = Append(entered, "sse")
    /\ depth' = depth + 1
    /\ phase' = "returning"
    /\ panicked' = panics
    /\ CASE panics = "before_write" ->
               panicking' = TRUE /\ UNCHANGED <<status, backendCalls>>
         [] panics = "after_write" ->
               panicking' = TRUE /\ status' = 200 /\ UNCHANGED backendCalls
         [] OTHER ->
               /\ backendCalls' = backendCalls + 1
               /\ status' = 200
               /\ UNCHANGED panicking
    /\ UNCHANGED <<mwOpts, req, returned, logLines, recovered, notMw>>

RecoversNothing(layer) == FALSE

\* Whether the layer's deferred function calls recover(): recoverMiddleware.
Recovers(layer) == layer = "recover"

\* http.Error(w, ..., code): WriteHeader has no effect on a response whose
\* header is written.
HttpError(written, code) == IF written = 0 THEN code ELSE written

\* The innermost running handler returns (or a panic unwinds through it); the
\* deferred function of recoverMiddleware stops a panic and answers 500. A panic
\* no layer recovers ends in net/http's own recover: the connection is dropped
\* with no response.
Return ==
    /\ phase = "returning"
    /\ depth > 0
    /\ LET layer == RouteHandler(mwOpts)[depth]
       IN  /\ returned' = Append(returned, layer)
           /\ IF panicking /\ Recovers(layer)
                  THEN panicking' = FALSE /\ status' = HttpError(status, 500)
                  ELSE UNCHANGED <<panicking, status>>
    /\ depth' = depth - 1
    /\ phase' = IF depth = 1 THEN "done" ELSE "returning"
    /\ UNCHANGED <<mwOpts, req, entered, backendCalls, logLines, panicked, recovered, notMw>>

MWNext ==
    \/ \E r \in Requests : Arrive(r)
    \/ RecoverServe
    \/ LogServe
    \/ AuthServe
    \/ \E panics \in PanicModes : SseServe(panics)
    \/ Return

SpecMW == MWInit /\ [][MWNext]_vars

\* ------------------------------------------------------------ the lifecycle

\* No request is in flight on the route of SpecMW.
MWIdle ==
    /\ mwOpts = [logEnabled |-> FALSE, authTokens |-> <<>>]
    /\ phase = "idle"
    /\ req = [hasAuth |-> FALSE, auth |-> <<>>]
    /\ depth = 0
    /\ entered = <<>>
    /\ returned = <<>>
    /\ status = 0
    /\ backendCalls = 0
    /\ logLines = 0
    /\ panicking = FALSE
    /\ panicked = "no"
    /\ recovered = FALSE

\* The step of the initialization protocol at which a backend may fail.
FailPoints == { "none", "start", "initialize", "tools" }

\* addToMCPServer on a client of this kind against a backend that fails at
\* failAt: the error it returns, the state it leaves the transport in (a stdio
\* transport is started by its constructor), whether it forked the ping task.
AddToMCPServer(kind, failAt) ==
    IF NeedManualStart(kind) /\ failAt = "start"
        THEN [err |-> "start", client |-> "created", ping |-> FALSE]
        ELSE IF failAt = "initialize"
                 THEN [err |-> "initialize", client |-> "started", ping |-> FALSE]
                 ELSE IF failAt = "tools"
                          THEN [err |-> "tools", client |-> "started", ping |-> FALSE]
                          ELSE [err |-> "ok", client |-> "started", ping |-> NeedPing(kind)]

TaskReturnsErrAlways(addErr, panicIfInvalid) == addErr # "ok"

TaskReturnsErrNever(addErr, panicIfInvalid) == FALSE

\* Whether the task hands addErr to the errgroup: only under panicIfInvalid.
TaskReturnsErr(addErr, panicIfInvalid) ==
    IF addErr # "ok"
        THEN IF panicIfInvalid THEN TRUE ELSE FALSE
        ELSE FALSE

TaskMayRunAlone(tasks, b) == \A c \in (DOMAIN tasks) \ { b } : tasks[c] # "forked"

\* errorGroup.Go on a group without a limit: the function runs in a goroutine
\* of its own, whatever the other tasks of the group are doing.
TaskMayRun(tasks, b) == TRUE

\* The task of backend b is at `at` and can take its next step.
TaskStep(b, at) ==
    /\ proc = "running"
    /\ task[b] = at
    /\ TaskMayRun(task, b)

\* startHTTPServer begins: the config is loaded, nothing is constructed yet.
Init ==
    /\ basePath \in BasePaths
    /\ servers \in ServerMaps(MaxBackends)
    /\ proc = "running"
    /\ mainPc = "loop"
    /\ task = [b \in DOMAIN servers |-> "none"]
    /\ initResult = [b \in DOMAIN servers |-> "none"]
    /\ client = [b \in DOMAIN servers |-> "none"]
    /\ closes = [b \in DOMAIN servers |-> 0]
    /\ pings = {}
    /\ groupErr = FALSE
    /\ routes = {}
    /\ hook = [b \in DOMAIN servers |-> "none"]
    /\ waiter = "none"
    /\ listener = "none"
    /\ inShutdown = FALSE
    /\ signalled = FALSE
    /\ pingExited = {}
    /\ shutdownErr = "none"
    /\ retErr = "none"
    /\ MWIdle
    /\ InitIdle
    /\ CfgIdle
    /\ AdIdle
    /\ IsoIdle
    /\ HandleIdle

\* One iteration of the loop over config.McpServers: newMCPClient (a failure is
\* fatal, whatever the backend's panicIfInvalid), newMCPServer, errorGroup.Go.
LoopIter(b, createFails) ==
    /\ proc = "running"
    /\ mainPc = "loop"
    /\ task[b] = "none"
    /\ IF createFails
           THEN /\ proc' = "fatal_create"
                /\ client' = [client EXCEPT ![b] = "failed"]
                /\ UNCHANGED task
           ELSE /\ client' = [client EXCEPT ![b] =
                                 IF NeedManualStart(servers[b].kind) THEN "created" ELSE "started"]
                /\ task' = [task EXCEPT ![b] = "forked"]
                /\ UNCHANGED proc
    /\ UNCHANGED <<basePath, servers, mainPc, initResult, closes, pings, groupErr, routes,
                   hook, waiter, listener, inShutdown, signalled, pingExited, shutdownErr,
                   retErr, notLife>>

\* After the loop: the goroutine of errorGroup.Wait and the goroutine of
\* ListenAndServe are forked, signal.Notify is called, and startHTTPServer
\* blocks on sigChan.
ForkBackground ==
    /\ proc = "running"
    /\ mainPc = "loop"
    /\ \A b \in DOMAIN servers : task[b] # "none"
    /\ waiter' = "waiting"
    /\ listener' = "forked"
    /\ mainPc' = "wait_signal"
    /\ UNCHANGED <<basePath, servers, proc, task, initResult, client, closes, pings,
                   groupErr, routes, hook, inShutdown, signalled, pingExited, shutdownErr,
                   retErr, notLife>>

\* The task runs addToMCPServer against a backend that fails at failAt (or
\* not); on an error it returns, with the error only under panicIfInvalid.
Connect(b, failAt) ==
    /\ TaskStep(b, "forked")
    /\ failAt = "start" => NeedManualStart(servers[b].kind)
    /\ LET res == AddToMCPServer(servers[b].kind, failAt)
       IN  /\ initResult' = [initResult EXCEPT ![b] = res.err]
           /\ client' = [client EXCEPT ![b] = res.client]
           /\ pings' = IF res.ping THEN pings \cup {b} ELSE pings
           /\ IF res.err # "ok"
                  THEN /\ task' = [task EXCEPT ![b] = "returned"]
                       /\ groupErr' =
                              (groupErr \/ TaskReturnsErr(res.err, servers[b].panicIfInvalid))
                  ELSE /\ task' = [task EXCEPT ![b] = "connected"]
                       /\ UNCHANGED groupErr
    /\ UNCHANGED <<basePath, servers, proc, mainPc, closes, routes, hook, waiter, listener,
                   inShutdown, signalled, pingExited, shutdownErr, retErr, notLife>>

\* The task registers its route: httpMux.Handle panics on a pattern that is
\* already registered, and the panic of a goroutine ends the process.
Mount(b) ==
    /\ TaskStep(b, "connected")
    /\ LET mcpRoute == McpRoute(basePath, b)
       IN  IF \E r \in routes : r.pattern = mcpRoute
               THEN /\ proc' = "panic"
                    /\ UNCHANGED <<routes, task>>
               ELSE /\ routes' = routes \cup { [pattern |-> mcpRoute, backend |-> b] }
                    /\ task' = [task EXCEPT ![b] = "mounted"]
                    /\ UNCHANGED proc
    /\ UNCHANGED <<basePath, servers, mainPc, initResult, client, closes, pings, groupErr,
                   hook, waiter, listener, inShutdown, signalled, pingExited, shutdownErr,
                   retErr, notLife>>

\* The task registers its shutdown hook (httpServer.RegisterOnShutdown) and
\* returns nil.
RegisterHook(b) ==
    /\ TaskStep(b, "mounted")
    /\ hook' = [hook EXCEPT ![b] = "registered"]
    /\ task' = [task EXCEPT ![b] = "returned"]
    /\ UNCHANGED <<basePath, servers, proc, mainPc, initResult, client, closes, pings,
                   groupErr, routes, waiter, listener, inShutdown, signalled, pingExited,
                   shutdownErr, retErr, notLife>>

WaitReturnsOnError(tasks, err) == err \/ \A b \in DOMAIN tasks : tasks[b] = "returned"

\* errorGroup.Wait blocks until every function passed to Go has returned,
\* whether or not one of them has returned an error already.
WaitReturns(tasks, err) == \A b \in DOMAIN tasks : tasks[b] = "returned"

\* errorGroup.Wait returns once every task has returned: log.Fatalf on an error,
\* "All clients initialized" otherwise.
WaiterReturn ==
    /\ proc = "running"
    /\ waiter = "waiting"
    /\ WaitReturns(task, groupErr)
    /\ IF groupErr
           THEN proc' = "fatal_init" /\ UNCHANGED waiter
           ELSE waiter' = "done" /\ UNCHANGED proc
    /\ UNCHANGED <<basePath, servers, mainPc, task, initResult, client, closes, pings,
                   groupErr, routes, hook, listener, inShutdown, signalled, pingExited,
                   shutdownErr, retErr, notLife>>

\* httpServer.ListenAndServe: ErrServerClosed at once after Shutdown, a fatal
\* error when it cannot listen, otherwise it serves.
ListenAndServe(listenFails) ==
    /\ proc = "running"
    /\ listener = "forked"
    /\ IF inShutdown
           THEN listener' = "not_served" /\ UNCHANGED proc
           ELSE IF listenFails
                    THEN proc' = "fatal_listen" /\ UNCHANGED listener
                    ELSE listener' = "serving" /\ UNCHANGED proc
    /\ UNCHANGED <<basePath, servers, mainPc, task, initResult, client, closes, pings,
                   groupErr, routes, hook, waiter, inShutdown, signalled, pingExited,
                   shutdownErr, retErr, notLife>>

\* A SIGINT or SIGTERM arrives: before signal.Notify it ends the process, after
\* it the signal waits in sigChan.
Signal ==
    /\ proc = "running"
    /\ ~signalled
    /\ IF mainPc = "loop"
           THEN proc' = "killed" /\ UNCHANGED signalled
           ELSE signalled' = TRUE /\ UNCHANGED proc
    /\ UNCHANGED <<basePath, servers, mainPc, task, initResult, client, closes, pings,
                   groupErr, routes, hook, waiter, listener, inShutdown, pingExited,
                   shutdownErr, retErr, notLife>>

\* startHTTPServer receives the signal and calls httpServer.Shutdown, which
\* under the server's lock marks the server as shutting down, closes the
\* listener and starts a goroutine for each hook registered so far.
ShutdownBegin ==
    /\ proc = "running"
    /\ mainPc = "wait_signal"
    /\ signalled
    /\ inShutdown' = TRUE
    /\ listener' = IF listener = "serving" THEN "closed" ELSE listener
    /\ hook' = [b \in DOMAIN servers |->
                   IF hook[b] = "registered" THEN "launched" ELSE hook[b]]
    /\ mainPc' = "shutdown"
    /\ UNCHANGED <<basePath, servers, proc, task, initResult, client, closes, pings,
                   groupErr, routes, waiter, signalled, pingExited, shutdownErr, retErr, notLife>>

\* A launched hook runs: mcpClient.Close().
RunHook(b) ==
    /\ proc = "running"
    /\ hook[b] = "launched"
    /\ closes' = [closes EXCEPT ![b] = closes[b] + 1]
    /\ hook' = [hook EXCEPT ![b] = "done"]
    /\ UNCHANGED <<basePath, servers, proc, mainPc, task, initResult, client, pings,
                   groupErr, routes, waiter, listener, inShutdown, signalled, pingExited,
                   shutdownErr, retErr, notLife>>

ShutdownOutcomesAny(mounted) == { "nil", "deadline" }

\* What httpServer.Shutdown(shutdownCtx) returns: nil once every connection
\* is idle, the context's error when the five seconds pass with a connection
\* still active. A connection stays active on a stream served by a route.
ShutdownOutcomes(mounted) == IF mounted = {} THEN { "nil" } ELSE { "nil", "deadline" }

ReturnedErrNil(err) == "nil"

\* The tail of startHTTPServer: the error of Shutdown is returned unless it is
\* nil or http.ErrServerClosed.
ReturnedErr(err) == IF err # "nil" /\ err # "ErrServerClosed" THEN err ELSE "nil"

\* httpServer.Shutdown returns and startHTTPServer returns to main: the
\* deferred cancel() cancels the gateway context on the way out.
ShutdownReturn(err) ==
    /\ proc = "running"
    /\ mainPc = "shutdown"
    /\ err \in ShutdownOutcomes(routes)
    /\ shutdownErr' = err
    /\ retErr' = ReturnedErr(err)
    /\ mainPc' = "returned"
    /\ UNCHANGED <<basePath, servers, proc, task, initResult, client, closes, pings,
                   groupErr, routes, hook, waiter, listener, inShutdown, signalled,
                   pingExited, notLife>>

\* A ping task takes ctx.Done() of the cancelled context and returns.
PingTaskExit(b) ==
    /\ proc = "running"
    /\ mainPc = "returned"
    /\ b \in pings \ pingExited
    /\ pingExited' = pingExited \cup { b }
    /\ UNCHANGED <<basePath, servers, proc, mainPc, task, initResult, client, closes, pings,
                   groupErr, routes, hook, waiter, listener, inShutdown, signalled,
                   shutdownErr, retErr, notLife>>

\* main has the result of startHTTPServer: log.Fatalf on an error, otherwise
\* it returns; the process ends, with every goroutine still running.
MainReturn ==
    /\ proc = "running"
    /\ mainPc = "returned"
    /\ proc' = IF retErr # "nil" THEN "fatal_server" ELSE "returned"
    /\ UNCHANGED <<basePath, servers, mainPc, task, initResult, client, closes, pings,
                   groupErr, routes, hook, waiter, listener, inShutdown, signalled,
                   pingExited, shutdownErr, retErr, notLife>>

Next ==
    \/ \E b \in DOMAIN servers, createFails \in BOOLEAN : LoopIter(b, createFails)
    \/ ForkBackground
    \/ \E b \in DOMAIN servers, failAt \in FailPoints : Connect(b, failAt)
    \/ \E b \in DOMAIN servers : Mount(b)
    \/ \E b \in DOMAIN servers : RegisterHook(b)
    \/ WaiterReturn
    \/ \E listenFails \in BOOLEAN : ListenAndServe(listenFails)
    \/ Signal
    \/ ShutdownBegin
    \/ \E b \in DOMAIN servers : RunHook(b)
    \/ \E err \in { "nil", "deadline" } : ShutdownReturn(err)
    \/ \E b \in DOMAIN servers : PingTaskExit(b)
    \/ MainReturn

Spec == Init /\ [][Next]_vars

\* ------------------------------------------- one backend's initialization

\* The family listed after f, "ping" after the last one.
NextFamily(f) ==
    CASE f = "tools" -> "prompts"
      [] f = "prompts" -> "resources"
      [] f = "resources" -> "templates"
      [] f = "templates" -> "ping"

\* The task calls addToMCPServer on a client newMCPClient has constructed.
InitInit ==
    /\ iKind \in Kinds
    /\ iPanic = FALSE
    /\ iFilter \in ToolFilters
    /\ iPc = IF NeedManualStart(iKind) THEN "start" ELSE "initialize"
    /\ iTask = "running"
    /\ iErr = "none"
    /\ iClient = IF NeedManualStart(iKind) THEN "created" ELSE "started"
    /\ iCursor = ""
    /\ iPage = 0
    /\ iLast = NoExchange
    /\ iRegistered = [f \in FamilySet |-> {}]
    /\ iFetched = [f \in FamilySet |-> {}]
    /\ iFamilyErr = {}
    /\ iWarnings = 0
    /\ iPing = "none"
    /\ iTick = FALSE
    /\ iCtx = FALSE
    /\ iPingsSent = 0
    /\ iPingErrs = 0
    /\ iCalls = {}
    /\ MWIdle
    /\ LifeIdle
    /\ CfgIdle
    /\ AdIdle
    /\ IsoIdle
    /\ HandleIdle

\* c.client.Start, when the client needs a manual start.
StartClient(fails) ==
    /\ iPc = "start"
    /\ iCalls' = iCalls \cup { "Start" }
    /\ IF fails
           THEN /\ iErr' = "start"
                /\ iPc' = "returned"
                /\ UNCHANGED iClient
           ELSE /\ iClient' = "started"
                /\ iPc' = "initialize"
                /\ UNCHANGED iErr
    /\ UNCHANGED <<iKind, iPanic, iFilter, iTask, iCursor, iPage, iLast, iRegistered, iFetched,
                   iFamilyErr, iWarnings, iPing, iTick, iCtx, iPingsSent, iPingErrs, notInit>>

\* c.client.Initialize.
Initialize(fails) ==
    /\ iPc = "initialize"
    /\ iCalls' = iCalls \cup { "Initialize" }
    /\ IF fails
           THEN iErr' = "initialize" /\ iPc' = "returned"
           ELSE iPc' = "filter" /\ UNCHANGED iErr
    /\ UNCHANGED <<iKind, iPanic, iFilter, iTask, iClient, iCursor, iPage, iLast, iRegistered,
                   iFetched, iFamilyErr, iWarnings, iPing, iTick, iCtx, iPingsSent, iPingErrs,
                   notInit>>

\* The head of addToolsToServer: filterFunc is built, an unknown mode is logged.
PrepareFilter ==
    /\ iPc = "filter"
    /\ iWarnings' = iWarnings + BuildFilter(iFilter).warnings
    /\ iPc' = "tools"
    /\ UNCHANGED <<iKind, iPanic, iFilter, iTask, iErr, iClient, iCursor, iPage, iLast,
                   iRegistered, iFetched, iFamilyErr, iPing, iTick, iCtx, iPingsSent,
                   iPingErrs, iCalls, notInit>>

\* One turn of a family's paging loop: the list request with the cursor, the
\* backend's response, the two breaks, the registrations in between.
ListPage(resp) ==
    /\ iPc \in FamilySet
    /\ iPage < MaxPages
    /\ resp \in Responses(iPc)
    /\ iLast' = [family |-> iPc, index |-> iPage + 1, sent |-> iCursor, page |-> resp]
    /\ iCalls' = iCalls \cup { iPc }
    /\ IF resp.err
           THEN /\ IF ListErrIsFatal(iPc)
                       THEN /\ iErr' = iPc
                            /\ iPc' = "returned"
                            /\ UNCHANGED iFamilyErr
                       ELSE /\ iFamilyErr' = iFamilyErr \cup { iPc }
                            /\ iPc' = NextFamily(iPc)
                            /\ UNCHANGED iErr
                /\ iCursor' = ""
                /\ iPage' = 0
                /\ iRegistered' = [iRegistered EXCEPT ![iPc] = RegisteredAfterListErr(@)]
                /\ UNCHANGED iFetched
           ELSE IF BreaksOnEmptyPage(resp)
                    THEN /\ iPc' = NextFamily(iPc)
                         /\ iCursor' = ""
                         /\ iPage' = 0
                         /\ UNCHANGED <<iErr, iFamilyErr, iRegistered, iFetched>>
                    ELSE /\ iFetched' = [iFetched EXCEPT ![iPc] = @ \cup resp.items]
                         /\ iRegistered' =
                                [iRegistered EXCEPT ![iPc] =
                                    @ \cup { Registration(iPc, n) :
                                                 n \in Admitted(iPc, iFilter, resp.items) }]
                         /\ IF BreaksOnEmptyCursor(resp)
                                THEN /\ iPc' = NextFamily(iPc)
                                     /\ iCursor' = ""
                                     /\ iPage' = 0
                                ELSE /\ iCursor' = NextRequestCursor(resp)
                                     /\ iPage' = iPage + 1
                                     /\ UNCHANGED iPc
                         /\ UNCHANGED <<iErr, iFamilyErr>>
    /\ UNCHANGED <<iKind, iPanic, iFilter, iTask, iClient, iWarnings, iPing, iTick, iCtx,
                   iPingsSent, iPingErrs, notInit>>

\* The tail of addToMCPServer: go c.startPingTask(ctx) under needPing, return nil.
ForkPing ==
    /\ iPc = "ping"
    /\ iPing' = IF NeedPing(iKind) THEN "running" ELSE iPing
    /\ iErr' = "ok"
    /\ iPc' = "returned"
    /\ iLast' = NoExchange
    /\ UNCHANGED <<iKind, iPanic, iFilter, iTask, iClient, iCursor, iPage, iRegistered,
                   iFetched, iFamilyErr, iWarnings, iTick, iCtx, iPingsSent, iPingErrs,
                   iCalls, notInit>>

\* The task after addToMCPServer: on an error it reads the backend's
\* panicIfInvalid and returns the error or nil; otherwise it mounts the
\* backend's route. The option is an input of the step that reads it.
TaskVerdict(panicIfInvalid) ==
    /\ iPc = "returned"
    /\ iTask = "running"
    /\ iErr = "ok" => panicIfInvalid = iPanic
    /\ iPanic' = panicIfInvalid
    /\ iTask' = IF iErr # "ok"
                    THEN IF TaskReturnsErr(iErr, panicIfInvalid) THEN "failed" ELSE "skipped"
                    ELSE "mounted"
    /\ UNCHANGED <<iKind, iFilter, iPc, iErr, iClient, iCursor, iPage, iLast, iRegistered,
                   iFetched, iFamilyErr, iWarnings, iPing, iTick, iCtx, iPingsSent,
                   iPingErrs, iCalls, notInit>>

\* The gateway context is cancelled.
CancelContext ==
    /\ ~iCtx
    /\ iCtx' = TRUE
    /\ UNCHANGED <<iKind, iPanic, iFilter, iPc, iTask, iErr, iClient, iCursor, iPage, iLast,
                   iRegistered, iFetched, iFamilyErr, iWarnings, iPing, iTick, iPingsSent,
                   iPingErrs, iCalls, notInit>>

\* Thirty seconds pass: the ticker of a running ping task puts a tick in
\* ticker.C, which holds one tick at most.
TickerFires ==
    /\ iPing = "running"
    /\ ~iTick
    /\ iPingsSent < MaxPings
    /\ iTick' = TRUE
    /\ UNCHANGED <<iKind, iPanic, iFilter, iPc, iTask, iErr, iClient, iCursor, iPage, iLast,
                   iRegistered, iFetched, iFamilyErr, iWarnings, iPing, iCtx, iPingsSent,
                   iPingErrs, iCalls, notInit>>

\* The select of startPingTask takes the tick: c.client.Ping(ctx), whose error
\* is dropped. On a cancelled context the call returns the context's error
\* before a request is written.
PingOnTick(pingFails) ==
    /\ iPing = "running"
    /\ iTick
    /\ iCtx => pingFails
    /\ iTick' = FALSE
    /\ iPingsSent' = IF iCtx THEN iPingsSent ELSE iPingsSent + 1
    /\ iPingErrs' = IF pingFails /\ ~iCtx THEN iPingErrs + 1 ELSE iPingErrs
    /\ iPing' = IF PingErrEndsTask(pingFails) THEN "exited" ELSE iPing
    /\ UNCHANGED <<iKind, iPanic, iFilter, iPc, iTask, iErr, iClient, iCursor, iPage, iLast,
                   iRegistered, iFetched, iFamilyErr, iWarnings, iCtx, iCalls, notInit>>

\* The select of startPingTask takes ctx.Done(): the task stops its ticker
\* and returns.
PingExit ==
    /\ iPing = "running"
    /\ iCtx
    /\ iPing' = "exited"
    /\ iTick' = FALSE
    /\ UNCHANGED <<iKind, iPanic, iFilter, iPc, iTask, iErr, iClient, iCursor, iPage, iLast,
                   iRegistered, iFetched, iFamilyErr, iWarnings, iCtx, iPingsSent, iPingErrs,
                   iCalls, notInit>>

InitNext ==
    \/ \E fails \in BOOLEAN : StartClient(fails)
    \/ \E fails \in BOOLEAN : Initialize(fails)
    \/ PrepareFilter
    \/ \E resp \in UNION { Responses(f) : f \in FamilySet } : ListPage(resp)
    \/ ForkPing
    \/ \E panicIfInvalid \in BOOLEAN : TaskVerdict(panicIfInvalid)
    \/ CancelContext
    \/ TickerFires
    \/ \E pingFails \in BOOLEAN : PingOnTick(pingFails)
    \/ PingExit

\* The select of startPingTask is fair to ctx.Done(): once the context is
\* cancelled the case stays ready until the task takes it.
SpecInit == InitInit /\ [][InitNext]_vars /\ WF_vars(PingExit)

\* ---------------------------------------------------- the config under load

\* The file is decoded: one backend, any options at both levels.
CfgInit ==
    /\ cConf \in RawConfigs
    /\ cStage = "raw"
    /\ cLoaded = NoConfig
    /\ cParsed = NotParsed
    /\ cJson = NoJson
    /\ cReloaded = NoConfig
    /\ MWIdle
    /\ LifeIdle
    /\ InitIdle
    /\ AdIdle
    /\ IsoIdle
    /\ HandleIdle

\* load returns: an error, or the Config with defaults and inheritance.
Load ==
    /\ cStage = "raw"
    /\ LET res == load(cConf)
       IN  IF res.err # ""
               THEN cStage' = "error" /\ UNCHANGED cLoaded
               ELSE cStage' = "loaded" /\ cLoaded' = res.conf
    /\ UNCHANGED <<cConf, cParsed, cJson, cReloaded, notCfg>>

\* newMCPClient calls parseMCPClientConfig on the backend's loaded config.
Parse ==
    /\ cStage = "loaded"
    /\ cParsed' = parseMCPClientConfig(cLoaded.backend)
    /\ cStage' = "parsed"
    /\ UNCHANGED <<cConf, cLoaded, cJson, cReloaded, notCfg>>

\* The loaded Config is written as JSON under the struct tags of Options.
Serialize ==
    /\ cStage = "parsed"
    /\ cJson' = EncodeConfig(cLoaded)
    /\ cStage' = "serialized"
    /\ UNCHANGED <<cConf, cLoaded, cParsed, cReloaded, notCfg>>

\* The JSON written is decoded and loaded again.
Reload(nullIsSet) ==
    /\ cStage = "serialized"
    /\ cReloaded' = load(DecodeConfig(cJson, nullIsSet)).conf
    /\ cStage' = "reloaded"
    /\ UNCHANGED <<cConf, cLoaded, cParsed, cJson, notCfg>>

CfgNext ==
    \/ Load
    \/ Parse
    \/ Serialize
    \/ \E nullIsSet \in BOOLEAN : Reload(nullIsSet)

SpecCfg == CfgInit /\ [][CfgNext]_vars

\* ------------------------------------------------ the multi-adapter server

\* The tool lists of a server's config and the tool filters of both levels.
AdapterToolLists == { <<>>, <<"t1">>, <<"t1", "t2">> }

AdapterModes == { "allow", "deny", "block", "other" }

AdapterFilterLists == { <<>>, <<"t1">> }

AdapterFilters ==
    { NoAdapterFilter }
        \cup [present : { TRUE }, mode : AdapterModes, tools : AdapterFilterLists]

AdapterOptions == { NilAdapterOptions } \cup [set : { TRUE }, toolFilter : AdapterFilters]

\* The options LoadNewConfig gives a proxy that has none.
DefaultProxyOptions ==
    [set |-> TRUE, toolFilter |-> [present |-> TRUE, mode |-> "block", tools |-> <<>>]]

\* LoadNewConfig: the default options of the proxy, and the server's tool
\* filter inherited from the proxy when the server has none.
LoadNewConfig(proxy, server) ==
    LET p == IF proxy.set THEN proxy ELSE DefaultProxyOptions
        s == IF ~server.set
                 THEN [set |-> TRUE, toolFilter |-> p.toolFilter]
                 ELSE IF ~server.toolFilter.present /\ p.toolFilter.present
                          THEN [server EXCEPT !.toolFilter = p.toolFilter]
                          ELSE server
    IN  [proxy |-> p, server |-> s]

InTools(list, tool) == \E i \in 1..Len(list) : list[i] = tool

\* One switch of shouldFilterTool on a filter's mode: whether a case returns,
\* and what.
ModeSwitch(filter, tool) ==
    IF filter.mode = "allow"
        THEN [returns |-> TRUE, filtered |-> ~InTools(filter.tools, tool)]
        ELSE IF filter.mode \in { "deny", "block" }
                 THEN [returns |-> TRUE, filtered |-> InTools(filter.tools, tool)]
                 ELSE [returns |-> FALSE, filtered |-> FALSE]

\* MultiAdapter.shouldFilterTool: the server's filter first, then the proxy's.
shouldFilterTool(conf, tool) ==
    LET own == ModeSwitch(conf.server.toolFilter, tool)
        global == ModeSwitch(conf.proxy.toolFilter, tool)
    IN  IF conf.server.set /\ conf.server.toolFilter.present /\ own.returns
            THEN own.filtered
            ELSE IF conf.proxy.set /\ conf.proxy.toolFilter.present /\ global.returns
                     THEN global.filtered
                     ELSE FALSE

\* AdapterInstance.AddToMCPServer, which the server's task calls: it hands
\* AddToMCPServerWithFilter a nil shouldFilterFunc.
InstanceFilterFunc == "nil"

\* The test at the head of the loop over ai.Tools.
SkipsTool(shouldFilterFunc, conf, tool) ==
    shouldFilterFunc # "nil" /\ shouldFilterTool(conf, tool)

AdapterInit ==
    /\ aProxy \in AdapterOptions
    /\ aServer \in AdapterOptions
    /\ aTools \in AdapterToolLists
    /\ aConf = [proxy |-> NilAdapterOptions, server |-> NilAdapterOptions]
    /\ aPc = "load"
    /\ aIdx = 1
    /\ aRegistered = {}
    /\ MWIdle
    /\ LifeIdle
    /\ InitIdle
    /\ CfgIdle
    /\ IsoIdle
    /\ HandleIdle

\* The config file is loaded.
AdapterLoad ==
    /\ aPc = "load"
    /\ aConf' = LoadNewConfig(aProxy, aServer)
    /\ aPc' = "tools"
    /\ UNCHANGED <<aProxy, aServer, aTools, aIdx, aRegistered, notAd>>

\* One turn of the loop over ai.Tools: the tool is skipped, or its input
\* schema is converted (an error ends the call) and the tool is registered.
AdapterAddTool(schemaFails) ==
    /\ aPc = "tools"
    /\ aIdx <= Len(aTools)
    /\ IF SkipsTool(InstanceFilterFunc, aConf, aTools[aIdx])
           THEN /\ aIdx' = aIdx + 1
                /\ UNCHANGED <<aPc, aRegistered>>
           ELSE IF schemaFails
                    THEN /\ aPc' = "failed"
                         /\ UNCHANGED <<aIdx, aRegistered>>
                    ELSE /\ aRegistered' = aRegistered \cup { aTools[aIdx] }
                         /\ aIdx' = aIdx + 1
                         /\ UNCHANGED aPc
    /\ UNCHANGED <<aProxy, aServer, aTools, aConf, notAd>>

\* After the tools the prompts and the resources are registered, and the call
\* returns nil.
AdapterAddRest ==
    /\ aPc = "tools"
    /\ aIdx > Len(aTools)
    /\ aPc' = "added"
    /\ UNCHANGED <<aProxy, aServer, aTools, aConf, aIdx, aRegistered, notAd>>

\* The server's task after AddToMCPServer: it returns on an error, otherwise
\* it mounts the server's route.
AdapterVerdict ==
    /\ aPc \in { "added", "failed" }
    /\ aPc' = IF aPc = "added" THEN "mounted" ELSE "skipped"
    /\ UNCHANGED <<aProxy, aServer, aTools, aConf, aIdx, aRegistered, notAd>>

AdapterNext ==
    \/ AdapterLoad
    \/ \E schemaFails \in BOOLEAN : AdapterAddTool(schemaFails)
    \/ AdapterAddRest
    \/ AdapterVerdict

SpecAdapter == AdapterInit /\ [][AdapterNext]_vars

\* ---------------------------------------------------- two backends side by side

\* The names of config.McpServers, and each backend's one auth token.
IsoBackends == { "a", "b" }

TokenOf(b) == IF b = "a" THEN "ta" ELSE "tb"

IsoConfigs == [logEnabled : BOOLEAN, hasTokens : BOOLEAN]

\* Options.AuthTokens of a backend.
IsoTokens(conf, b) == IF conf[b].hasTokens THEN { TokenOf(b) } ELSE {}

\* The calls a request makes on a route's MCP server; both backends advertise
\* a tool, a prompt and a resource of the same names.
IsoCalls == { "CallTool", "GetPrompt", "ReadResource" }

\* What the closure of errorGroup.Go reads as `name` and `clientConfig`: the
\* loop variables of its own iteration, whatever the loop is at when it runs.
CapturedShared(own, current) == current

Captured(own, current) == own

IsoInit ==
    /\ qConf \in [IsoBackends -> IsoConfigs]
    /\ qCur = "none"
    /\ qTask = [b \in IsoBackends |-> "none"]
    /\ qReg = [b \in IsoBackends |-> {}]
    /\ qRoutes = {}
    /\ qPanic = FALSE
    /\ qLast = NoCall
    /\ MWIdle
    /\ LifeIdle
    /\ InitIdle
    /\ CfgIdle
    /\ AdIdle
    /\ HandleIdle

\* One iteration of the loop over config.McpServers: mcpClient and server are
\* made for the backend and its task is forked.
IsoLoopIter(b) ==
    /\ ~qPanic
    /\ qTask[b] = "none"
    /\ qCur' = b
    /\ qTask' = [qTask EXCEPT ![b] = "forked"]
    /\ UNCHANGED <<qConf, qReg, qRoutes, qPanic, qLast, notIso>>

\* The task's mcpClient.addToMCPServer(ctx, info, server.mcpServer): every
\* registration on the iteration's MCP server forwards to the iteration's
\* client.
IsoConnect(b) ==
    /\ ~qPanic
    /\ qTask[b] = "forked"
    /\ qReg' = [qReg EXCEPT ![b] = { [call |-> c, client |-> b] : c \in IsoCalls }]
    /\ qTask' = [qTask EXCEPT ![b] = "connected"]
    /\ UNCHANGED <<qConf, qCur, qRoutes, qPanic, qLast, notIso>>

\* The task builds the middlewares from name and clientConfig and mounts the
\* iteration's sseServer under the route of name.
IsoMount(b) ==
    /\ ~qPanic
    /\ qTask[b] = "connected"
    /\ LET name == Captured(b, qCur)
       IN  IF \E r \in qRoutes : r.pattern = name
               THEN /\ qPanic' = TRUE
                    /\ UNCHANGED <<qRoutes, qTask>>
               ELSE /\ qRoutes' = qRoutes \cup
                            { [pattern |-> name, server |-> b, prefix |-> name,
                               logEnabled |-> qConf[name].logEnabled,
                               tokens |-> IsoTokens(qConf, name)] }
                    /\ qTask' = [qTask EXCEPT ![b] = "mounted"]
                    /\ UNCHANGED qPanic
    /\ UNCHANGED <<qConf, qCur, qReg, qLast, notIso>>

\* A request on a mounted route: the route's auth middleware, its logger,
\* and the call on the route's MCP server, forwarded by the registration.
IsoServe(r, token, call) ==
    /\ ~qPanic
    /\ r \in qRoutes
    /\ LET authorized == r.tokens = {} \/ token \in r.tokens
           reg == CHOOSE g \in qReg[r.server] : g.call = call
       IN  qLast' = [route |-> r.pattern, token |-> token, call |-> call,
                     status |-> IF authorized THEN 200 ELSE 401,
                     client |-> IF authorized THEN reg.client ELSE "none",
                     logged |-> IF authorized /\ r.logEnabled THEN r.prefix ELSE "none"]
    /\ UNCHANGED <<qConf, qCur, qTask, qReg, qRoutes, qPanic, notIso>>

IsoNext ==
    \/ \E b \in IsoBackends : IsoLoopIter(b)
    \/ \E b \in IsoBackends : IsoConnect(b)
    \/ \E b \in IsoBackends : IsoMount(b)
    \/ \E r \in qRoutes, token \in { "none", "ta", "tb" }, call \in IsoCalls :
           IsoServe(r, token, call)

SpecIso == IsoInit /\ [][IsoNext]_vars

\* ------------------------------------------- one tool call on ToolHandler

\* maxRetries of Handle.
maxRetries == 3

\* A ParameterMapping: its Source, Required, and whether Default is not nil.
ParameterMappings(source) == [source : { source }, required : BOOLEAN, hasDefault : BOOLEAN]

\* The mappings of a tool with the parameters p1 and p2.
ToolMappings ==
    { <<m1, m2>> : m1 \in ParameterMappings("p1"), m2 \in ParameterMappings("p2") }

\* req.Params.Arguments: a map with some of the keys, or a value of another type.
CallArguments ==
    { [isMap |-> FALSE, keys |-> {}] } \cup [isMap : { TRUE }, keys : SUBSET { "p1", "p2" }]

\* The steps between validateParams and the retry loop that can fail.
PrepareFailures == { "none", "url", "body", "request" }

\* The status codes of the target API's responses.
StatusCodes == { 200, 404, 500 }

\* validateParams: the first required parameter that is neither among the
\* arguments nor has a default, "" when there is none.
RECURSIVE validateParams(_, _)
validateParams(mapping, keys) ==
    IF mapping = <<>>
        THEN ""
        ELSE LET p == Head(mapping)
             IN  IF p.required /\ p.source \notin keys /\ ~p.hasDefault
                     THEN p.source
                     ELSE validateParams(Tail(mapping), keys)

BreaksNever(err) == FALSE

\* `if err == nil { break }` of the retry loop.
BreaksOnSuccess(err) == ~err

\* time.Sleep of the retry loop: i+1 seconds, but not after the last attempt.
SleepAfter(i) == IF i < maxRetries - 1 THEN i + 1 ELSE 0

\* A tool is called: any mapping, any arguments.
HandleInit ==
    /\ hMapping \in ToolMappings
    /\ hMethod \in { "GET", "POST" }
    /\ hErrorMapping \in SUBSET { 404 }
    /\ hArgs \in CallArguments
    /\ hPc = "start"
    /\ hI = 0
    /\ hOutcomes = <<>>
    /\ hErr = FALSE
    /\ hResp = 0
    /\ hSlept = 0
    /\ hProcessed = 0
    /\ hResult = "none"
    /\ MWIdle
    /\ LifeIdle
    /\ InitIdle
    /\ CfgIdle
    /\ AdIdle
    /\ IsoIdle

\* Handle up to the retry loop: the type assertion on the arguments,
\* validateParams, buildURL, prepareBody (POST and PUT only) and
\* http.NewRequestWithContext, each with its early return.
HandlePrepare(fails) ==
    /\ hPc = "start"
    /\ fails = "body" => hMethod = "POST"
    /\ IF ~hArgs.isMap
           THEN hResult' = "invalid parameters type" /\ hPc' = "returned"
           ELSE IF validateParams(hMapping, hArgs.keys) # ""
                    THEN hResult' = "invalid parameters" /\ hPc' = "returned"
                    ELSE IF fails # "none"
                             THEN hResult' = fails /\ hPc' = "returned"
                             ELSE hPc' = "send" /\ UNCHANGED hResult
    /\ UNCHANGED <<hMapping, hMethod, hErrorMapping, hArgs, hI, hOutcomes, hErr, hResp,
                   hSlept, hProcessed, notHandle>>

\* One iteration of the retry loop: h.Client.Do returns a response or an
\* error; the loop is left on a response, and after the sleep otherwise.
ClientDo(fails) ==
    /\ hPc = "send"
    /\ hI < maxRetries
    /\ hOutcomes' = Append(hOutcomes, fails)
    /\ hErr' = fails
    /\ hResp' = IF fails THEN 0 ELSE Len(hOutcomes) + 1
    /\ IF BreaksOnSuccess(fails)
           THEN /\ hPc' = "after"
                /\ UNCHANGED <<hI, hSlept>>
           ELSE /\ hSlept' = hSlept + SleepAfter(hI)
                /\ hI' = hI + 1
                /\ hPc' = IF hI + 1 < maxRetries THEN "send" ELSE "after"
    /\ UNCHANGED <<hMapping, hMethod, hErrorMapping, hArgs, hProcessed, hResult, notHandle>>

\* After the loop: the error of the last attempt is returned, wrapped.
AfterLoop ==
    /\ hPc = "after"
    /\ IF hErr
           THEN hResult' = "http request failed after 3 attempts" /\ hPc' = "returned"
           ELSE hPc' = "process" /\ UNCHANGED hResult
    /\ UNCHANGED <<hMapping, hMethod, hErrorMapping, hArgs, hI, hOutcomes, hErr, hResp,
                   hSlept, hProcessed, notHandle>>

\* The response is read and turned into the result: an error when the body
\* cannot be read, the mapped error of the status code, an error on a status
\* outside 2xx, the body as text otherwise.
ProcessResponse(statusCode, readFails) ==
    /\ hPc = "process"
    /\ hProcessed' = hResp
    /\ hResult' =
           IF readFails
               THEN "failed to read response body"
               ELSE IF statusCode \in hErrorMapping
                        THEN "mapped error"
                        ELSE IF statusCode < 200 \/ statusCode >= 300
                                 THEN "http error"
                                 ELSE "result"
    /\ hPc' = "returned"
    /\ UNCHANGED <<hMapping, hMethod, hErrorMapping, hArgs, hI, hOutcomes, hErr, hResp,
                   hSlept, notHandle>>

HandleNext ==
    \/ \E fails \in PrepareFailures : HandlePrepare(fails)
    \/ \E fails \in BOOLEAN : ClientDo(fails)
    \/ AfterLoop
    \/ \E statusCode \in StatusCodes, readFails \in BOOLEAN :
           ProcessResponse(statusCode, readFails)

SpecHandle == HandleInit /\ [][HandleNext]_vars

\* ------------------------------------------------ claims on the middleware

\* The order the claims expect on a request's way in: recover, log, auth, sse.
ExpectedOrder == Middlewares(mwOpts) \o <<"sse">>

Reverse(s) == [i \in 1..Len(s) |-> s[Len(s) + 1 - i]]

\* The request uses the Bearer scheme: its header is "Bearer " and a credential.
IsBearer(r) == r.hasAuth /\ HasPrefix(r.auth, BearerPrefix)

\* The credential of a Bearer request, trimmed.
BearerToken(r) == TrimSpace(SubSeq(r.auth, Len(BearerPrefix) + 1, Len(r.auth)))

\* A layer downstream of the auth middleware began to run.
DownstreamOfAuth ==
    \E i \in DOMAIN entered : entered[i] = "auth" /\ i < Len(entered)

\* The request was answered 401 and nothing behind the auth middleware ran.
Rejected == status = 401 /\ ~DownstreamOfAuth /\ backendCalls = 0

\* C1: on a mounted route the layers run in the order recover, log, auth, SSE
\* handler (recover first to run), and return in the opposite order (recover last
\* to return): chain(h, m1, m2, m3) behaves as m1(m2(m3(h))).
C1_RecoverOutermost ==
    /\ Len(entered) <= Len(ExpectedOrder)
    /\ entered = SubSeq(ExpectedOrder, 1, Len(entered))
    /\ phase = "done" => returned = Reverse(entered)

\* C2, as claimed: with a non-empty token set, a request with no Authorization
\* header or with a Bearer token that, trimmed, is not in the set is answered 401
\* and nothing downstream runs; a request with "Bearer <t>" whose trimmed t is in
\* the set is passed downstream.
C2_AuthGateAsClaimed ==
    (phase = "done" /\ Len(mwOpts.authTokens) > 0) =>
        /\ (~req.hasAuth \/ (IsBearer(req) /\ BearerToken(req) \notin TokenSet(mwOpts.authTokens)))
               => Rejected
        /\ (IsBearer(req) /\ BearerToken(req) \in TokenSet(mwOpts.authTokens))
               => DownstreamOfAuth

\* C2, amended: as claimed, but the request that is passed downstream is one
\* whose trimmed Bearer token is non-empty and in the set.
C2_AuthGate ==
    (phase = "done" /\ Len(mwOpts.authTokens) > 0) =>
        /\ (~req.hasAuth \/ (IsBearer(req) /\ BearerToken(req) \notin TokenSet(mwOpts.authTokens)))
               => Rejected
        /\ ( /\ IsBearer(req)
             /\ BearerToken(req) # <<>>
             /\ BearerToken(req) \in TokenSet(mwOpts.authTokens) )
               => DownstreamOfAuth

\* A request with a configured, non-empty Bearer token was served by the backend.
C2_Witness ==
    /\ phase = "done"
    /\ Len(mwOpts.authTokens) > 0
    /\ IsBearer(req)
    /\ BearerToken(req) # <<>>
    /\ BearerToken(req) \in TokenSet(mwOpts.authTokens)
    /\ status = 200
    /\ backendCalls = 1

\* C3: with a non-empty token set, a request whose Authorization header does not
\* start with "Bearer " is answered 401, even when the header value is itself a
\* configured token.
C3_WrongSchemeRejected ==
    ( /\ phase = "done"
      /\ Len(mwOpts.authTokens) > 0
      /\ req.hasAuth
      /\ ~HasPrefix(req.auth, BearerPrefix) )
        => Rejected

\* C4: a Bearer token is required iff the token list is non-empty: with an empty
\* list every request reaches the SSE handler, with a non-empty list only a
\* request with a configured Bearer token does.
C4_TokenRequiredIff ==
    phase = "done" =>
        IF Len(mwOpts.authTokens) = 0
            THEN \E i \in DOMAIN entered : entered[i] = "sse"
            ELSE (\E i \in DOMAIN entered : entered[i] = "sse")
                     => (IsBearer(req) /\ BearerToken(req) \in TokenSet(mwOpts.authTokens))

\* -------------------------------------------------- claims on the lifecycle

\* The backend's initialization task was forked and has not returned.
Initializing(b) == task[b] \in { "forked", "connected", "mounted" }

\* Every backend's initialization task has returned.
AllTasksReturned == \A b \in DOMAIN servers : task[b] = "returned"

\* addToMCPServer returned an error for the backend.
InitFailed(b) == initResult[b] \notin { "none", "ok" }

\* Some backend with panicIfInvalid failed its initialization protocol.
StrictFailure == \E b \in DOMAIN servers : InitFailed(b) /\ servers[b].panicIfInvalid

\* The routes registered by the backend's task.
RoutesOf(b) == { r \in routes : r.backend = b }

\* The string without its leading and trailing slashes.
RECURSIVE StripSlashes(_)
StripSlashes(p) ==
    IF p # <<>> /\ Head(p) = "/"
        THEN StripSlashes(Tail(p))
        ELSE IF p # <<>> /\ p[Len(p)] = "/"
                 THEN StripSlashes(SubSeq(p, 1, Len(p) - 1))
                 ELSE p

\* The pattern is join(baseURL.Path, name) between a leading and a trailing "/".
IsNormalizedRoute(pattern, name) ==
    /\ HasPrefix(pattern, <<"/">>)
    /\ HasSuffix(pattern, <<"/">>)
    /\ pattern = <<"/">> \o StripSlashes(Join(basePath, name)) \o <<"/">>

\* C5: the listener never accepts requests while some backend's initialization
\* task is still running.
C5_NoServingDuringInit ==
    ~(listener = "serving" /\ \E b \in DOMAIN servers : Initializing(b))

\* C6: no route is registered on the mux once the listener is running.
C6_NoHandleAfterListen == [][listener = "serving" => routes' = routes]_vars

\* C7: no client is closed twice, and when the gateway has returned after a
\* signal every constructed client has been closed exactly once.
C7_ClosedExactlyOnce ==
    /\ \A b \in DOMAIN servers : closes[b] <= 1
    /\ proc = "returned" =>
           \A b \in DOMAIN servers : client[b] \notin { "none", "failed" } => closes[b] = 1

\* C8: when the gateway has returned after a signal, every shutdown hook that
\* was registered, also one registered after the signal arrived, was invoked.
C8_HookInvoked ==
    proc = "returned" =>
        \A b \in DOMAIN servers : hook[b] # "none" => hook[b] \in { "launched", "done" }

\* C9: once every initialization task has returned, each backend whose
\* initialization succeeded has exactly one route, of the form
\* "/" + join(baseURL.Path, name) + "/", a backend that failed has none, and the
\* mux holds no other route.
C9_RoutesAreSuccesses ==
    AllTasksReturned =>
        /\ \A b \in DOMAIN servers :
               IF initResult[b] = "ok"
                   THEN /\ Cardinality(RoutesOf(b)) = 1
                        /\ \A r \in RoutesOf(b) : IsNormalizedRoute(r.pattern, b)
                   ELSE RoutesOf(b) = {}
        /\ \A r \in routes : r.backend \in DOMAIN servers
        /\ Cardinality({ r.pattern : r \in routes }) = Cardinality(routes)

\* Every task has returned, one backend is mounted and a permissive one failed.
C9_Witness ==
    /\ AllTasksReturned
    /\ proc = "running"
    /\ \E b \in DOMAIN servers : initResult[b] = "ok" /\ RoutesOf(b) # {}
    /\ \E b \in DOMAIN servers : InitFailed(b) /\ ~servers[b].panicIfInvalid

C11_PolicyGovernsEveryError ==
    /\ proc \in { "fatal_create", "fatal_init" } =>
           \E b \in DOMAIN servers :
               servers[b].panicIfInvalid /\ (client[b] = "failed" \/ InitFailed(b))
    /\ \A b \in DOMAIN servers :
           (client[b] = "failed" /\ ~servers[b].panicIfInvalid) => proc = "running"

\* ------------------------------------- claims on one backend's initialization

\* The names registered on the backend's MCP server for the family.
Names(f) == { r.name : r \in iRegistered[f] }

\* The families whose errors the claims call best-effort.
OptionalFamilies == { "prompts", "resources", "templates" }

\* The page ends the pagination: it has no items or no next cursor.
Terminal(page) == page.items = {} \/ page.next = ""

\* A list exchange took place and returned a page.
PageReceived == iLast.family # "none" /\ ~iLast.page.err

\* The tools of the pages received that the configured list lets through under
\* the mode, read without regard to case.
ExpectedTools ==
    LET listed == FilterSet(iFilter.list)
    IN  IF ~FilterConfigured(iFilter)
            THEN iFetched["tools"]
            ELSE IF ToLower(iFilter.mode) = ToolFilterModeAllow
                     THEN iFetched["tools"] \cap listed
                     ELSE IF ToLower(iFilter.mode) = ToolFilterModeBlock
                              THEN iFetched["tools"] \ listed
                              ELSE iFetched["tools"]

\* C12: a failure of tool listing makes addToMCPServer fail (the route is not
\* mounted), whereas a failure of listing prompts, resources or resource
\* templates is swallowed: addToMCPServer returns success, the tools registered
\* stay registered, and the route is mounted.
C12_OnlyToolsFailureIsFatal ==
    /\ iFamilyErr \subseteq OptionalFamilies
    /\ iErr \notin OptionalFamilies
    /\ (iLast.family = "tools" /\ iLast.page.err) =>
           (iErr = "tools" /\ iPc = "returned" /\ iTask # "mounted")
    /\ iFamilyErr # {} =>
           /\ iErr \in { "none", "ok" }
           /\ iPc = "returned" => iErr = "ok"
           /\ iTask # "running" => iTask = "mounted"
           /\ Names("tools") = ExpectedTools

\* The listing of prompts failed after tools were registered, and the route
\* is mounted with the tools.
C12_Witness ==
    /\ iTask = "mounted"
    /\ "prompts" \in iFamilyErr
    /\ Names("tools") # {}
    /\ Names("prompts") = {}

\* C13: in each family no list request follows the first page that is empty or
\* has an empty next cursor: an empty page ends the loop even with a cursor,
\* registers nothing and is no error; a non-empty page with an empty cursor is
\* registered and then ends the loop.
C13_PagingStops ==
    /\ [](PageReceived =>
             /\ Terminal(iLast.page) => iPc # iLast.family
             /\ iLast.page.items = {} =>
                    (iLast.family \notin iFamilyErr /\ iErr # iLast.family)
             /\ iLast.family # "tools" => iLast.page.items \subseteq Names(iLast.family)
             /\ iLast.family = "tools" => Names("tools") = ExpectedTools)
    /\ [][(PageReceived /\ Terminal(iLast.page) /\ iLast' # iLast)
              => iLast'.family # iLast.family]_vars
    /\ [][(iLast' # iLast /\ iLast'.family # "none" /\ iLast'.page.items = {})
              => iRegistered' = iRegistered]_vars

\* A family's second page was empty and carried a cursor; the loop ended with
\* the first page's items registered.
C13_Witness ==
    /\ PageReceived
    /\ iLast.index = 2
    /\ iLast.page.items = {}
    /\ iLast.page.next # ""
    /\ iPc = NextFamily(iLast.family)
    /\ Names(iLast.family) # {}

\* C14: with a tool filter whose list is non-empty, the mode read without
\* regard to case: under allow the tools registered are those advertised and
\* listed, under block those advertised and not listed; every registered
\* tool's callback forwards CallTool to the backend's client, and a rejected
\* tool has no registration.
C14_AllowAndBlock ==
    FilterConfigured(iFilter) =>
        /\ ToLower(iFilter.mode) = ToolFilterModeAllow =>
               Names("tools") = iFetched["tools"] \cap FilterSet(iFilter.list)
        /\ ToLower(iFilter.mode) = ToolFilterModeBlock =>
               Names("tools") = iFetched["tools"] \ FilterSet(iFilter.list)
        /\ \A r \in iRegistered["tools"] : r.callback = "CallTool"

\* Under the mode "Allow" the backend advertised two tools and the listed one
\* alone is registered.
C14_Witness ==
    /\ iFilter.present
    /\ iFilter.mode = <<"A", "l", "l", "o", "w">>
    /\ iFilter.list = <<"t1">>
    /\ iFetched["tools"] = { "t1", "t2" }
    /\ iRegistered["tools"] = { [name |-> "t1", callback |-> "CallTool"] }
    /\ iPc = "prompts"

\* The listing of tools was reached.
ToolsListingBegan == iPc \in FamilySet \cup { "ping" } \/ iErr \in { "tools", "ok" }

OwnOptions == IF cConf.backend.options.present THEN cConf.backend.options ELSE EmptyOptions

\* The proxy's options as decoded, a nil pointer read as the empty struct.
ProxyOptions == IF cConf.mcpProxy.options.present THEN cConf.mcpProxy.options ELSE EmptyOptions

\* load has returned a Config.
Loaded == cStage \in { "loaded", "parsed", "serialized", "reloaded" }

\* C16: parseMCPClientConfig follows the inference rule for every combination of
\* command (empty or not), url (empty or not) and transportType (unset, stdio,
\* sse, streamable-http): a command gives stdio; stdio without a command is an
\* error; otherwise a url gives streamable-http iff the transport says so and sse
\* if not; otherwise an error.
C16_InferenceRule ==
    cStage \in { "parsed", "serialized", "reloaded" } =>
        LET b == cLoaded.backend
        IN  /\ b.command # "" => (cParsed.kind = "stdio" /\ cParsed.err = "")
            /\ (b.command = "" /\ b.transportType = "stdio") =>
                   (cParsed.kind = "none" /\ cParsed.err # "")
            /\ (b.command = "" /\ b.transportType # "stdio" /\ b.url # "") =>
                   /\ cParsed.err = ""
                   /\ cParsed.kind \in { "sse", "streamable-http" }
                   /\ cParsed.kind = "streamable-http"
                          <=> b.transportType = "streamable-http"
            /\ (b.command = "" /\ b.transportType # "stdio" /\ b.url = "") =>
                   (cParsed.kind = "none" /\ cParsed.err # "")

\* A backend with a command, a url and the transport sse was parsed: stdio.
C16_Witness ==
    /\ cStage = "parsed"
    /\ cLoaded.backend.command # ""
    /\ cLoaded.backend.url # ""
    /\ cLoaded.backend.transportType = "sse"
    /\ cParsed.kind = "stdio"

\* C17: after load the backend's panicIfInvalid and logEnabled are its own when
\* it set them (also an explicit false under a proxy-level true) and the
\* proxy's when it did not; its authTokens are the proxy's list when it omitted
\* them; a value the backend set is never replaced by the proxy's.
C17_Inheritance ==
    Loaded =>
        LET eff == cLoaded.backend.options
        IN  /\ eff.panicIfInvalid =
                   IF OwnOptions.panicIfInvalid # "unset"
                       THEN OwnOptions.panicIfInvalid
                       ELSE ProxyOptions.panicIfInvalid
            /\ eff.logEnabled =
                   IF OwnOptions.logEnabled # "unset"
                       THEN OwnOptions.logEnabled
                       ELSE ProxyOptions.logEnabled
            /\ OwnOptions.authTokens.isNil =>
                   eff.authTokens.list = ProxyOptions.authTokens.list
            /\ ~OwnOptions.authTokens.isNil => eff.authTokens = OwnOptions.authTokens

\* A backend with panicIfInvalid false and an empty authTokens list was loaded
\* under a proxy with panicIfInvalid true and tokens: it kept both; it took the
\* proxy's logEnabled, having none.
C17_Witness ==
    /\ Loaded
    /\ OwnOptions.panicIfInvalid = "false"
    /\ ProxyOptions.panicIfInvalid = "true"
    /\ OwnOptions.logEnabled = "unset"
    /\ ProxyOptions.logEnabled = "true"
    /\ ~OwnOptions.authTokens.isNil
    /\ OwnOptions.authTokens.list = <<>>
    /\ ProxyOptions.authTokens.list # <<>>
    /\ Effective(cLoaded.backend.options) =
           [panicIfInvalid |-> FALSE, logEnabled |-> TRUE, authTokens |-> <<>>]

\* C18: loading a config, writing the backend's effective options as JSON under
\* the struct tags of Options and loading the result gives the same effective
\* options, for every combination of unset, empty and non-empty authTokens and
\* of unset, false and true booleans at both levels.
C18_RoundTrip ==
    cStage = "reloaded" =>
        Effective(cReloaded.backend.options) = Effective(cLoaded.backend.options)

\* Every backend was initialized and had its hook registered when Shutdown was
\* called, and startHTTPServer has returned.
ReturnedAfterFullInit ==
    /\ mainPc = "returned"
    /\ \A b \in DOMAIN servers : initResult[b] = "ok" /\ hook[b] \in { "launched", "done" }

\* C20: after a signal with all backends initialized, when startHTTPServer
\* returns every backend's close hook has run to completion and every ping task
\* has exited.
C20_ShutdownWaits ==
    ReturnedAfterFullInit =>
        \A b \in DOMAIN servers :
            /\ hook[b] = "done"
            /\ b \in pings => b \in pingExited

\* --------------------------------------- claims on the middleware, continued

\* The request reached the SSE handler.
ReachedSse == \E i \in DOMAIN entered : entered[i] = "sse"

C26_OneLogLinePerRequest ==
    phase = "done" => logLines = IF mwOpts.logEnabled THEN 1 ELSE 0

\* ------------------------------------------- claims on initialization, continued

\* A list request has been made on the backend client.
Listed == iCalls \cap FamilySet # {}

\* C25: within one backend's initialization Start is called first, and only
\* for a transport that needs a manual start; Initialize follows; the listing
\* and registration of tools is complete before a prompt, resource or
\* resource-template listing begins; the ping task is forked only after
\* all four families have been attempted; and when Start or Initialize
\* fails no list request is made and no ping task is forked.
C25_InitializationOrder ==
    /\ []("Start" \in iCalls => iKind \in { "sse", "streamable-http" })
    /\ []((iKind \in { "sse", "streamable-http" } /\ iCalls # {}) => "Start" \in iCalls)
    /\ []("Initialize" \in iCalls => iClient = "started")
    /\ [](Listed => ("Initialize" \in iCalls /\ iErr \notin { "start", "initialize" }))
    /\ []((iCalls \cap OptionalFamilies # {}) =>
              ("tools" \in iCalls /\ iPc # "tools" /\ iErr # "tools"))
    /\ [][(iCalls \cap OptionalFamilies # {}) =>
              iRegistered'["tools"] = iRegistered["tools"]]_vars
    /\ [](iPing # "none" => FamilySet \subseteq iCalls)
    /\ [](iErr \in { "start", "initialize" } => (~Listed /\ iPing = "none"))

C25_Witness ==
    /\ iKind = "sse"
    /\ iPing = "running"
    /\ iCalls = { "Start", "Initialize" } \cup FamilySet
    /\ iRegistered["tools"] # {}
    /\ iRegistered["prompts"] # {}

\* The items of a page that are to be registered: every item, and for tools
\* those the configured list lets through under the mode.
ExpectedOf(f, items) ==
    LET listed == FilterSet(iFilter.list)
    IN  IF f # "tools" \/ ~FilterConfigured(iFilter)
            THEN items
            ELSE IF ToLower(iFilter.mode) = ToolFilterModeAllow
                     THEN items \cap listed
                     ELSE IF ToLower(iFilter.mode) = ToolFilterModeBlock
                              THEN items \ listed
                              ELSE items

\* A list request is made in the step.
ListRequestMade == iLast' # iLast /\ iLast'.family # "none"

\* C27: in each capability family the first list request carries an empty
\* cursor and each later request carries the NextCursor of the page before
\* it; what is registered is the items (for tools, the items the filter
\* admits) of every page fetched, the terminating page included, each with
\* the callback into this backend's client.
C27_CursorChain ==
    /\ [][ListRequestMade =>
              IF iLast.family = iLast'.family
                  THEN /\ iLast'.index = iLast.index + 1
                       /\ ~iLast.page.err
                       /\ iLast.page.next # ""
                       /\ iLast'.sent = iLast.page.next
                  ELSE /\ iLast'.index = 1
                       /\ iLast'.sent = ""]_vars
    /\ [][ListRequestMade =>
              iRegistered' =
                  [iRegistered EXCEPT ![iLast'.family] =
                      @ \cup { [name |-> n, callback |-> CallbackOf(iLast'.family)] :
                                   n \in ExpectedOf(iLast'.family, iLast'.page.items) }]]_vars
    /\ [][iRegistered' # iRegistered => ListRequestMade]_vars

\* The second request for tools carried the cursor "c2" of the first page,
\* and the tools of both pages are registered.
C27_Witness ==
    /\ iLast.family = "tools"
    /\ iLast.index = 2
    /\ iLast.sent = "c2"
    /\ iLast.page = [err |-> FALSE, items |-> { "t2" }, next |-> ""]
    /\ ~FilterConfigured(iFilter)
    /\ Names("tools") = { "t1", "t2" }

\* C28: the tool filter affects tools only: whatever its mode and list, the
\* prompts, resources and resource templates registered are those the backend
\* advertised, an item named in a block list or missing from an allow list
\* included.
C28_FilterSparesOtherFamilies ==
    /\ [](\A f \in OptionalFamilies : Names(f) = iFetched[f])
    /\ [][\A f \in OptionalFamilies :
              (ListRequestMade /\ iLast'.family = f) =>
                  { r.name : r \in iRegistered'[f] } = Names(f) \cup iLast'.page.items]_vars

\* Under a block list naming t1 and t2 the backend advertised both tools and
\* the prompt t2: no tool is registered, the prompt is.
C28_Witness ==
    /\ iFilter.present
    /\ iFilter.mode = <<"b", "l", "o", "c", "k">>
    /\ iFilter.list = <<"t1", "t2">>
    /\ iFetched["tools"] = { "t1", "t2" }
    /\ Names("tools") = {}
    /\ iFetched["prompts"] = { "t2" }
    /\ Names("prompts") = { "t2" }

\* C29: a ping that returns an error is swallowed: the ping task goes on, the
\* client is left as it is, the route and the registrations are left as they
\* are, and every later tick taken before the gateway context is cancelled
\* sends a ping; the task ends on the cancellation alone.
C29_PingErrorSwallowed ==
    /\ [](iPing = "exited" => iCtx)
    /\ [][iPingErrs' # iPingErrs =>
              /\ iPing' = "running"
              /\ iClient' = iClient
              /\ iTask' = iTask
              /\ iRegistered' = iRegistered]_vars
    /\ [][(iPingErrs > 0 /\ iTick /\ ~iTick' /\ ~iCtx) =>
              iPingsSent' = iPingsSent + 1]_vars

\* Two pings were sent and both returned an error: the second was sent after
\* the first had failed, the task runs on and the route is mounted.
C29_Witness ==
    /\ iPingErrs = 2
    /\ iPingsSent = 2
    /\ iPing = "running"
    /\ iTask = "mounted"
    /\ iClient = "started"
    /\ ~iCtx

\* ------------------------------------------- claims on the life cycle, continued

C30_ReturnAfterSignal ==
    /\ mainPc = "returned" =>
           /\ signalled
           /\ shutdownErr # "none"
           /\ retErr # "nil" <=> shutdownErr \notin { "nil", "ErrServerClosed" }
           /\ retErr # "nil" => retErr = shutdownErr
    /\ mainPc # "returned" => retErr = "none"
    /\ proc = "fatal_server" => (mainPc = "returned" /\ retErr # "nil")
    /\ proc = "returned" => (mainPc = "returned" /\ retErr = "nil")

\* The deadline passed during Shutdown: startHTTPServer returned the error and
\* main ended the process with log.Fatalf.
C30_Witness ==
    /\ shutdownErr = "deadline"
    /\ retErr = "deadline"
    /\ proc = "fatal_server"

\* --------------------------------------------- claims on the multi-adapter server

\* The server's effective tool filter leaves the tool out: the tool is not
\* listed under allow, or is listed under deny or block.
Excluded(filter, tool) ==
    /\ filter.present
    /\ \/ filter.mode = "allow" /\ ~InTools(filter.tools, tool)
       \/ filter.mode \in { "deny", "block" } /\ InTools(filter.tools, tool)

\* C24: in the multi-adapter server a tool that the server's effective
\* tool_filter excludes is never registered on the server's MCP server.
C24_ExcludedToolNotRegistered ==
    aPc # "load" => \A t \in aRegistered : ~Excluded(aConf.server.toolFilter, t)

\* ------------------------------------------------ claims on backend isolation

C35_EmptyListFiltersNothing ==
    (iFilter.present /\ iFilter.list = <<>>) =>
        /\ Names("tools") = iFetched["tools"]
        /\ iWarnings = 0

\* Under the mode allow with an empty list both advertised tools are
\* registered and the listing of tools is over.
C35_Witness ==
    /\ iFilter.present
    /\ iFilter.mode = ToolFilterModeAllow
    /\ iFilter.list = <<>>
    /\ iFetched["tools"] = { "t1", "t2" }
    /\ Names("tools") = { "t1", "t2" }
    /\ iWarnings = 0
    /\ iPc = "prompts"

\* ------------------------------------- claims on initialization, the last ones

\* C38: registration is not atomic per family: when a list request fails on a
\* page after the first, the items of the family's earlier pages stay
\* registered; for prompts, resources and resource templates the remaining
\* families are still attempted and initialization succeeds, for tools
\* initialization fails and the route is not mounted.
C38_NoRollback ==
    /\ [][\A f \in FamilySet : iRegistered[f] \subseteq iRegistered'[f]]_vars
    /\ [][(ListRequestMade /\ iLast'.page.err) =>
              /\ iRegistered' = iRegistered
              /\ IF iLast'.family = "tools"
                     THEN iErr' = "tools" /\ iPc' = "returned"
                     ELSE /\ iErr' = iErr
                          /\ iPc' \in (OptionalFamilies \cup { "ping" }) \ { iLast'.family }]_vars
    /\ [](iErr = "tools" => iTask # "mounted")
    /\ []((iFamilyErr # {} /\ iPc = "returned") =>
              /\ iErr = "ok"
              /\ FamilySet \subseteq iCalls
              /\ iTask \in { "running", "mounted" })

\* The second request for prompts failed: the prompt of the first page is
\* registered, the other families were attempted and the route is mounted.
C38_Witness ==
    /\ "prompts" \in iFamilyErr
    /\ Names("prompts") = { "t2" }
    /\ FamilySet \subseteq iCalls
    /\ iErr = "ok"
    /\ iTask = "mounted"

\* --------------------------------------- claims on the lifecycle, the last ones

\* A backend whose initialization failed under panicIfInvalid.
FatalFailure(b) == initResult[b] \notin { "none", "ok" } /\ servers[b].panicIfInvalid

\* C31: "All clients initialized" is logged at most once per run, only after
\* every backend's initialization task has returned and none returned a fatal
\* error, and every "Connected" line of a backend precedes it.
C31_AllInitializedOnce ==
    /\ [][waiter' = "done" =>
              \/ waiter = "done"
              \/ /\ waiter = "waiting"
                 /\ \A b \in DOMAIN servers : task[b] = "returned" /\ ~FatalFailure(b)]_vars
    /\ [][waiter = "done" =>
              /\ waiter' = "done"
              /\ \A b \in DOMAIN servers : initResult'[b] = initResult[b]]_vars
    /\ [](waiter = "done" =>
              \A b \in DOMAIN servers : task[b] = "returned" /\ ~FatalFailure(b))

\* Two backends, one connected and one skipped without panicIfInvalid, and the
\* line is logged.
C31_Witness ==
    /\ waiter = "done"
    /\ Cardinality(DOMAIN servers) = 2
    /\ \E b \in DOMAIN servers : initResult[b] = "ok" /\ hook[b] = "registered"
    /\ \E b \in DOMAIN servers : initResult[b] = "tools" /\ ~servers[b].panicIfInvalid

\* C32: backends initialize independently: while the initialization of a
\* backend hangs (its task stays in addToMCPServer), every other backend's task
\* can take each of its steps up to its return.
C32_HungBackendBlocksNobody ==
    proc = "running" =>
        \A h \in DOMAIN servers : \A b \in (DOMAIN servers) \ { h } :
            (task[h] = "forked" /\ task[b] \in { "forked", "connected", "mounted" }) =>
                TaskStep(b, task[b])

\* One backend still hangs in its initialization; the other is initialized,
\* its route is mounted and the listener serves.
C32_Witness ==
    /\ proc = "running"
    /\ listener = "serving"
    /\ \E h \in DOMAIN servers : \E b \in (DOMAIN servers) \ { h } :
           /\ task[h] = "forked"
           /\ task[b] = "returned"
           /\ initResult[b] = "ok"
           /\ \E r \in routes : r.backend = b

\* C33: two distinct backend names never normalize to the same mux pattern, so
\* no initialization task registers a pattern that another task registered
\* (httpMux.Handle panics on it).
C33_DistinctNamesDistinctRoutes ==
    /\ \A b \in DOMAIN servers :
           task[b] = "connected" => ~\E r \in routes : r.pattern = McpRoute(basePath, b)
    /\ proc # "panic"

\* C34: when a backend with panicIfInvalid fails its initialization, the fatal
\* abort comes only after every other task has returned: the failure cancels
\* nothing and touches no sibling, the siblings go on, and while one of them is
\* still initializing the listener keeps serving the mounted routes.
C34_AbortAfterSiblings ==
    /\ [][(groupErr' /\ ~groupErr) =>
              /\ proc' = "running"
              /\ <<mainPc, listener, routes, inShutdown, pingExited>>' =
                     <<mainPc, listener, routes, inShutdown, pingExited>>
              /\ \A c \in DOMAIN servers :
                     task'[c] # task[c] => FatalFailure(c)' /\ task'[c] = "returned"]_vars
    /\ [][(proc' = "fatal_init" /\ proc # "fatal_init") =>
              /\ \A c \in DOMAIN servers : ~Initializing(c)
              /\ \E b \in DOMAIN servers : FatalFailure(b)]_vars
    /\ []((proc = "running" /\ groupErr) => \A c \in DOMAIN servers : Initializing(c) => TaskStep(c, task[c]))
    /\ [][(/\ groupErr
            /\ \E c \in DOMAIN servers : Initializing(c)
            /\ listener = "serving"
            /\ listener' # "serving") => inShutdown']_vars

\* One backend has failed under panicIfInvalid; its sibling has mounted its
\* route and has not returned yet, and the listener serves.
C34_Witness ==
    /\ proc = "running"
    /\ groupErr
    /\ listener = "serving"
    /\ ~inShutdown
    /\ \E b \in DOMAIN servers : \E c \in (DOMAIN servers) \ { b } :
           /\ FatalFailure(b)
           /\ task[b] = "returned"
           /\ task[c] = "mounted"
           /\ \E r \in routes : r.backend = c

\* ------------------------------------- claims on the config file, the last ones

\* The layers of the handler startHTTPServer mounts for the loaded backend.
LoadedRouteLayers ==
    LET h == RouteHandler(Effective(cLoaded.backend.options))
    IN  { h[i] : i \in DOMAIN h }

\* C36: a backend whose authTokens are present and empty does not inherit the
\* proxy's tokens: after load its list is still empty and its route is mounted
\* without the auth middleware, whatever the proxy's list; only a backend
\* without authTokens (null or omitted) takes the proxy's list.
C36_EmptyListNotInherited ==
    Loaded =>
        /\ (~OwnOptions.authTokens.isNil /\ OwnOptions.authTokens.list = <<>>) =>
               /\ cLoaded.backend.options.authTokens.list = <<>>
               /\ "auth" \notin LoadedRouteLayers
        /\ cLoaded.backend.options.authTokens # OwnOptions.authTokens =>
               /\ OwnOptions.authTokens.isNil
               /\ cLoaded.backend.options.authTokens = ProxyOptions.authTokens

\* The proxy has a token, the backend an explicit empty list: the loaded
\* backend has no token and its handler no auth layer.
C36_Witness ==
    /\ Loaded
    /\ OwnOptions.present
    /\ ~OwnOptions.authTokens.isNil
    /\ OwnOptions.authTokens.list = <<>>
    /\ Len(ProxyOptions.authTokens.list) > 0
    /\ cLoaded.backend.options.authTokens.list = <<>>
    /\ "auth" \notin LoadedRouteLayers
    /\ "recover" \in LoadedRouteLayers

\* C37: the proxy's toolFilter is never propagated to a backend nor applied on
\* it: load leaves the backend's toolFilter as the file has it, and a backend
\* without a toolFilter of its own registers every tool advertised, whatever
\* the proxy's toolFilter.
C37_ProxyFilterNotPropagated ==
    Loaded =>
        /\ cLoaded.backend.options.toolFilter = OwnOptions.toolFilter
        /\ cLoaded.mcpProxy.options.toolFilter = ProxyOptions.toolFilter
        /\ ~OwnOptions.toolFilter.present =>
               /\ \A items \in SUBSET ItemNames("tools") :
                      Admitted("tools", cLoaded.backend.options.toolFilter, items) = items
               /\ BuildFilter(cLoaded.backend.options.toolFilter).warnings = 0

\* The proxy allows t1 only, the backend has options but no toolFilter: after
\* load the backend has none and t2 is admitted.
C37_Witness ==
    /\ Loaded
    /\ ProxyOptions.toolFilter.present
    /\ ProxyOptions.toolFilter.list = <<"t1">>
    /\ OwnOptions.present
    /\ ~OwnOptions.toolFilter.present
    /\ ~cLoaded.backend.options.toolFilter.present
    /\ Admitted("tools", cLoaded.backend.options.toolFilter, { "t1", "t2" }) = { "t1", "t2" }

\* ------------------------------------------------------ claims on tool calls

\* The calls of h.Client.Do so far that returned an error.
FailedAttempts == { k \in DOMAIN hOutcomes : hOutcomes[k] }

\* C39: Handle sends the HTTP request at most 3 times: it stops at the first
\* attempt that returns without an error and processes that attempt's response;
\* it returns "http request failed after 3 attempts" iff all 3 attempts failed;
\* every step of the loop is one more attempt, so the loop ends; and with a
\* required parameter without default missing it returns an error before any
\* attempt.
C39_AtMostThreeAttempts ==
    /\ [](Len(hOutcomes) <= 3)
    /\ [](\A k \in DOMAIN hOutcomes : k < Len(hOutcomes) => hOutcomes[k])
    /\ [](hProcessed # 0 =>
              /\ hProcessed = Len(hOutcomes)
              /\ ~hOutcomes[hProcessed]
              /\ FailedAttempts = 1 .. (hProcessed - 1))
    /\ [](hPc = "returned" =>
              (hResult = "http request failed after 3 attempts"
                   <=> (Len(hOutcomes) = 3 /\ FailedAttempts = 1 .. 3)))
    /\ [](hPc = "returned" /\ Len(hOutcomes) > 0 /\ FailedAttempts # DOMAIN hOutcomes =>
              hProcessed = Len(hOutcomes))
    /\ [][hPc = "send" => Len(hOutcomes') = Len(hOutcomes) + 1]_vars
    /\ []((/\ hArgs.isMap
           /\ \E k \in DOMAIN hMapping :
                  /\ hMapping[k].required
                  /\ ~hMapping[k].hasDefault
                  /\ hMapping[k].source \notin hArgs.keys
           /\ hPc # "start") =>
              /\ hPc = "returned"
              /\ hResult = "invalid parameters"
              /\ hOutcomes = <<>>)

\* Two attempts failed, the third returned a response, which was processed
\* into the result after three seconds of sleep.
C39_Witness ==
    /\ hPc = "returned"
    /\ hOutcomes = <<TRUE, TRUE, FALSE>>
    /\ hProcessed = 3
    /\ hSlept = 3
    /\ hResult = "result"

====
